---- MODULE Spec2Model ----
(***************************************************************************)
(* Model of the IG MCP server: the per-connection session store            *)
(* (src/src/session-manager.ts), the gate and the tool dispatcher          *)
(* executeToolCall (src/src/index.ts), the broker client's authenticate    *)
(* and per-resource calls (src/unnamed/part_003, ig-client.ts) and the     *)
(* stdio, POST /mcp and POST /api/login front ends (src/src/index.ts).     *)
(*                                                                         *)
(* Node runs every handler without preemption up to its first awaited      *)
(* broker request.  A call is therefore one step when it needs no broker   *)
(* request and two steps otherwise: the step that sends the request, and   *)
(* BrokerRespond, which resumes the handler with the broker's outcome.     *)
(*                                                                         *)
(* A JavaScript value that the code only tests for truthiness (a tool      *)
(* argument, an environment variable, a request header) is the empty       *)
(* string when it is undefined or empty.                                   *)
(***************************************************************************)
EXTENDS Integers, Sequences, FiniteSets, TLC

\* ------------------------------------------------------------------ bounds
\* Number of web-* connection identities the HTTP front end can mint.
MaxWeb == 2
\* Number of calls that can be suspended on broker I/O at the same time.
MaxInflight == 2
\* Number of requests the front ends accept in one run.
MaxCalls == 2
\* Length of the positions array in a broker answer.
MaxPositions == 3
\* Calls of one connection in SessionSpec.
MaxSessionCalls == 4

\* -------------------------------------------------------------- value sets
\* Connection identities: 0 is the identity generated at start-up
\* (index.ts:57), i > 0 is the i-th minted web-* identity.
StartupConnectionId == 0
ConnIds == 0..MaxWeb

GateSecret == "gate-secret"
WrongKey == "wrong-key"
EnvUser == "env-user"
EnvPass == "env-pass"
EnvKey == "env-key"
ToolUser == "tool-user"
ToolPass == "tool-pass"
ToolKey == "tool-key"
DefaultKey == "default-key"

ResourceTools ==
  { "ig_get_accounts", "ig_get_account_balance", "ig_get_positions",
    "ig_get_open_positions", "ig_close_position", "ig_place_order",
    "ig_get_working_orders", "ig_delete_working_order", "ig_get_market_data",
    "ig_search_instruments", "ig_get_historical_prices", "ig_get_watchlists",
    "ig_get_watchlist_markets", "ig_call_api" }

UnknownTool == "no_such_tool"

ToolNames ==
  {"mcp_authenticate", "ig_login", "ig_logout", UnknownTool} \cup ResourceTools

\* The tools the front ends are driven with.  The fourteen resource cases of
\* executeToolCall are the same code up to the client method they await;
\* one tool stands for each way a client method reads the broker's answer
\* (FieldTools, WrapTools, the rest).
CalledTools ==
  { "mcp_authenticate", "ig_login", "ig_logout", "ig_get_accounts",
    "ig_get_open_positions", "ig_call_api", UnknownTool }

\* The arguments object of a tools/call: the keys the handlers read, "" (0
\* for size and level) when the key is missing.  The booleans forceOpen and
\* guaranteedStop are "true" and "false"; additionalHeaders is the CST entry
\* of the additionalHeaders object of an ig_call_api.  The optional keys of
\* an order that are not here (stopLevel, stopDistance, limitLevel,
\* limitDistance, currencyCode, goodTillDate) are handled as level is.
NoArgs ==
  [username |-> "", password |-> "", apiKey |-> "",
   dealId |-> "", epic |-> "", direction |-> "", size |-> 0,
   additionalHeaders |-> "",
   expiry |-> "", orderType |-> "", level |-> 0, timeInForce |-> "",
   guaranteedStop |-> "", forceOpen |-> ""]

\* Arguments a caller can pass with each tool.
ArgsFor(name) ==
  CASE name = "mcp_authenticate" ->
         { [NoArgs EXCEPT !.apiKey = k] : k \in {"", GateSecret, WrongKey} }
    [] name = "ig_login" ->
         { NoArgs,
           [NoArgs EXCEPT !.username = ToolUser, !.password = ToolPass,
                          !.apiKey = ToolKey],
           [NoArgs EXCEPT !.username = ToolUser],
           [NoArgs EXCEPT !.password = ToolPass],
           [NoArgs EXCEPT !.apiKey = ToolKey],
           [NoArgs EXCEPT !.apiKey = EnvKey] }
    [] OTHER -> {NoArgs}

\* The tools/call requests POST /mcp is driven with: the handler adds only
\* the choice of the identity to executeToolCall, so one resource tool and
\* two logins are enough there.
McpTools == {"mcp_authenticate", "ig_login", "ig_logout", "ig_get_accounts"}

McpArgsFor(name) ==
  IF name = "ig_login"
  THEN { NoArgs,
         [NoArgs EXCEPT !.username = ToolUser, !.password = ToolPass,
                        !.apiKey = ToolKey] }
  ELSE ArgsFor(name)

\* Messages of the envelopes.
MsgUnauthorized == "Unauthorized: Connection not authenticated"
MsgOpen == "No API key required. Server is open for connections."
MsgGateOk == "Successfully authenticated with MCP server"
MsgGateBad == "Authentication failed: Invalid API key"
MsgStrict == "SECURITY: credentials via environment variables only"
MsgMissing == "Missing credentials"
MsgNotAuthenticated == "Not authenticated. Please use the login tool first."
MsgLoggedOut == "Successfully logged out and session cleared"
MsgUnknownTool == "Unknown tool"
MsgDefault == "Operation completed successfully"
MsgLoginOk == "Successfully authenticated with IG API"
MsgNoTokens == "Authentication failed: Invalid response from IG API"
MsgRelogin == "Authentication failed. Please check your credentials and try logging in again."
MsgNotFound == "The requested resource was not found. Please check the parameters."
MsgRateLimit == "Rate limit exceeded. Please wait a moment before trying again."
MsgUnavailable == "IG API is currently unavailable. Please try again later."
MsgCallOk == "retrieved successfully"
MsgCallFailed == "Failed to call the IG API"
MsgAuthFailed == "Authentication failed"
MsgUnexpected == "Unexpected error"

\* JavaScript values of the data field of an envelope.
DataNull == [k |-> "null", v |-> "", list |-> <<>>]
DataUndefined == [k |-> "undefined", v |-> "", list |-> <<>>]
DataAbsent == [k |-> "absent", v |-> "", list |-> <<>>]
DataObj(v) == [k |-> "object", v |-> v, list |-> <<>>]
\* An array of positions.
DataList(l) == [k |-> "object", v |-> "array", list |-> l]

VARIABLES
  MCP_SERVER_API_KEY,        \* index.ts:40
  REQUIRE_AUTHENTICATION,    \* index.ts:42
  REQUIRE_ENV_CREDENTIALS,   \* index.ts:41
  USERNAME, PASSWORD, API_KEY,  \* index.ts:29-31
  authenticatedConnections,  \* index.ts:51
  sessions,                  \* session-manager.ts:16, in insertion order
  clients,                   \* index.ts:54
  currentConnectionId,       \* index.ts:57
  nextWeb,                   \* number of web-* identities minted so far
  calls,                     \* number of requests accepted so far
  inflight,                  \* calls suspended on a broker request
  ev,                        \* the request or response the last step handled
  out,                       \* envelopes executeToolCall returned in the last step
  sent,                      \* broker requests issued in the last step
  res,                       \* JSON-RPC response POST /mcp wrote in the last step
  loggedIn,                  \* history: callers logged in, no logout since
  presented,                 \* history: callers that presented the gate secret
  sessionKey                 \* history: X-IG-API-KEY of the login request that
                             \* created the stored session of a connection

config == <<MCP_SERVER_API_KEY, REQUIRE_AUTHENTICATION, REQUIRE_ENV_CREDENTIALS,
            USERNAME, PASSWORD, API_KEY>>
vars == <<MCP_SERVER_API_KEY, REQUIRE_AUTHENTICATION, REQUIRE_ENV_CREDENTIALS,
          USERNAME, PASSWORD, API_KEY, authenticatedConnections, sessions,
          clients, currentConnectionId, nextWeb, calls, inflight, ev, out,
          sent, res, loggedIn, presented, sessionKey>>

\* --------------------------------------------------------- Session Store
\* session-manager.ts: the Map `sessions` is a sequence of entries
\* [id, session, credentials] in insertion order; a null session or null
\* credentials is the empty sequence, a stored one a one-element sequence.
HasStore(ss, connectionId) == \E i \in DOMAIN ss : ss[i].id = connectionId

StoreIndex(ss, connectionId) == CHOOSE i \in DOMAIN ss : ss[i].id = connectionId

getSessionStore(ss, connectionId) ==
  IF HasStore(ss, connectionId) THEN ss
  ELSE Append(ss, [id |-> connectionId, session |-> <<>>, credentials |-> <<>>])

\* Mutant: the session is written to the first entry of the Map.
setSession_wrongEntry(ss, connectionId, session) ==
  LET st == getSessionStore(ss, connectionId)
  IN [st EXCEPT ![1].session = <<session>>]

setSession(ss, connectionId, session) ==
  LET st == getSessionStore(ss, connectionId)
  IN [st EXCEPT ![StoreIndex(st, connectionId)].session = <<session>>]

\* Mutant: a connection without an entry is given the session of the first
\* entry of the Map.
getSession_firstEntry(ss, connectionId) ==
  IF HasStore(ss, connectionId) THEN ss[StoreIndex(ss, connectionId)].session
  ELSE IF ss # <<>> THEN ss[1].session
  ELSE <<>>

\* The value getSession returns; its side effect on the Map is getSessionStore.
getSession(ss, connectionId) ==
  IF HasStore(ss, connectionId) THEN ss[StoreIndex(ss, connectionId)].session
  ELSE <<>>

\* Mutant: the entry is replaced by one that holds the credentials only.
setCredentials_replacesStore(ss, connectionId, credentials) ==
  LET st == getSessionStore(ss, connectionId)
  IN [st EXCEPT ![StoreIndex(st, connectionId)] =
        [id |-> connectionId, session |-> <<>>, credentials |-> <<credentials>>]]

setCredentials(ss, connectionId, credentials) ==
  LET st == getSessionStore(ss, connectionId)
  IN [st EXCEPT ![StoreIndex(st, connectionId)].credentials = <<credentials>>]

\* Mutant: the credentials are cleared and the session is left.
clearSession_keepsSession(ss, connectionId) ==
  LET st == getSessionStore(ss, connectionId)
      i == StoreIndex(st, connectionId)
  IN [st EXCEPT ![i].credentials = <<>>]

clearSession(ss, connectionId) ==
  LET st == getSessionStore(ss, connectionId)
      i == StoreIndex(st, connectionId)
  IN [st EXCEPT ![i].session = <<>>, ![i].credentials = <<>>]

isAuthenticated(ss, connectionId) ==
  LET session == getSession(ss, connectionId)
  IN session # <<>> /\ session[1].authenticated = TRUE

\* getAllSessions: the pairs [connId, session] in the Map's order.
getAllSessions(ss) ==
  [i \in DOMAIN ss |-> [connId |-> ss[i].id, session |-> ss[i].session]]

\* ------------------------------------------------------------------ gate
\* Mutant: every key is accepted.
validateApiKey_anyKey(apiKey) == TRUE

validateApiKey(apiKey) ==
  IF MCP_SERVER_API_KEY = "" THEN TRUE
  ELSE apiKey = MCP_SERVER_API_KEY

\* Mutant: the REQUIRE_AUTHENTICATION test loses its negation.
isConnectionAuthenticated_lostNegation(ac, connectionId) ==
  IF REQUIRE_AUTHENTICATION \/ MCP_SERVER_API_KEY = "" THEN TRUE
  ELSE connectionId \in ac

isConnectionAuthenticated(ac, connectionId) ==
  IF ~REQUIRE_AUTHENTICATION \/ MCP_SERVER_API_KEY = "" THEN TRUE
  ELSE connectionId \in ac

\* Mutant: a wrong key removes the connection from the set.
authenticateConnection_dropsOnBadKey(ac, connectionId, apiKey) ==
  IF ~REQUIRE_AUTHENTICATION \/ MCP_SERVER_API_KEY = ""
  THEN [ok |-> TRUE, ac |-> ac]
  ELSE IF validateApiKey(apiKey)
       THEN [ok |-> TRUE, ac |-> ac \cup {connectionId}]
       ELSE [ok |-> FALSE, ac |-> ac \ {connectionId}]

\* authenticateConnection: the boolean it returns and the set it leaves.
authenticateConnection(ac, connectionId, apiKey) ==
  IF ~REQUIRE_AUTHENTICATION \/ MCP_SERVER_API_KEY = ""
  THEN [ok |-> TRUE, ac |-> ac]
  ELSE IF validateApiKey(apiKey)
       THEN [ok |-> TRUE, ac |-> ac \cup {connectionId}]
       ELSE [ok |-> FALSE, ac |-> ac]

allowToolCredentials == ~REQUIRE_ENV_CREDENTIALS

\* --------------------------------------------------------- broker client
\* An IGClient is its X-IG-API-KEY header and its two default token headers.
IGClient(apiKey) == [apiKey |-> apiKey, CST |-> "", XST |-> ""]

\* Mutant: tokens the client already has are kept.
clientSetSession_keepsOld(client, session) ==
  IF session.cst # "" /\ session.xSecurityToken # "" /\ client.CST = ""
  THEN [client EXCEPT !.CST = session.cst, !.XST = session.xSecurityToken]
  ELSE client

\* IGClient.setSession
clientSetSession(client, session) ==
  IF session.cst # "" /\ session.xSecurityToken # ""
  THEN [client EXCEPT !.CST = session.cst, !.XST = session.xSecurityToken]
  ELSE client

\* clients is a function from connection identity to <<>> or <<client>>.
getClient(cl, connectionId) ==
  IF cl[connectionId] = <<>>
  THEN [cl EXCEPT ![connectionId] =
          <<IGClient(IF API_KEY # "" THEN API_KEY ELSE DefaultKey)>>]
  ELSE cl

\* What the broker can answer.  kind "ok" is a 2xx response, "http" a
\* response with an error status, "network" a request without a response.
\* body of a 2xx response: "full" is a JSON object with the fields the
\* caller reads, "bare" a JSON object without them, "null" the JSON value
\* null.  body of an error response (axiosError.response.data): "full" is
\* an object with errorCode and errorMessage, "bare" an object without
\* errorCode, "text" a string, "none" no body.  positions is the array
\* response.data.positions of a "full" answer to GET /positions.
HttpErrors == {401}
Bodies == {"full", "bare", "null"}

Outcome(kind, status, cst, xst, accountId, body) ==
  [kind |-> kind, status |-> status, cst |-> cst, xst |-> xst,
   accountId |-> accountId, body |-> body, positions |-> <<>>,
   request |-> <<>>]

NoOutcome == Outcome("", 0, "", "", "", "")

LoginOutcomes ==
  { Outcome("ok", 200, "cst-A", "xst-A", "acc-A", "full"),
    Outcome("ok", 200, "cst-A", "xst-A", "", "null"),
    Outcome("ok", 200, "", "xst-A", "acc-A", "full"),
    Outcome("ok", 200, "cst-A", "", "acc-A", "full"),
    Outcome("network", 0, "", "", "", "none") }
  \cup { Outcome("http", s, "", "", "", "full") : s \in HttpErrors }

ResourceOutcomes ==
  { Outcome("ok", 200, "", "", "", b) : b \in Bodies }
  \cup { Outcome("network", 0, "", "", "", "none") }
  \cup { Outcome("http", s, "", "", "", "full") : s \in HttpErrors }

OutcomesFor(name) ==
  IF name = "ig_login" THEN LoginOutcomes ELSE ResourceOutcomes

\* The error field of an IGResponse.
NoError == [errorCode |-> "", errorMessage |-> ""]
UpstreamCode == "error.upstream.code"
UpstreamMessage == "upstream error message"
UpstreamText == "upstream error text"
AxiosMessage == "Request failed"
TypeErrorMessage == "Cannot read properties of null"

\* The debug field of an IGResponse and of an envelope: absent, or an
\* object with its status (0 when it has none) and its response.  request
\* is the identifier and password of debug.request.data, headers the CST and
\* X-SECURITY-TOKEN of a debug.response that is the headers of a response.
DebugAbsent ==
  [k |-> "absent", status |-> 0, response |-> "", request |-> <<>>,
   headers |-> <<>>]
DebugObj(status, response) ==
  [k |-> "object", status |-> status, response |-> response,
   request |-> <<>>, headers |-> <<>>]

\* An IGResponse.  session is the data of a successful login; thrown marks
\* a promise that was rejected instead of resolved with a result.
IGResponse(success, data, session, userMessage, error, debug) ==
  [success |-> success, data |-> data, session |-> session,
   userMessage |-> userMessage, error |-> error, debug |-> debug,
   thrown |-> FALSE]

NoResult == IGResponse(FALSE, DataUndefined, <<>>, "", NoError, DebugAbsent)

\* Mutant: 403 is not among the statuses that ask for a new login.
friendlyMessage_without403(status, userMessage) ==
  IF status = 401 THEN MsgRelogin
  ELSE IF status = 404 THEN MsgNotFound
  ELSE IF status = 429 THEN MsgRateLimit
  ELSE IF status = 500 \/ status = 502 \/ status = 503 THEN MsgUnavailable
  ELSE userMessage

\* `let friendlyMessage = userMessage; if (status === 401 || ...` of
\* handleError, for an error response with this status.
friendlyMessage(status, userMessage) ==
  IF status = 401 \/ status = 403 THEN MsgRelogin
  ELSE IF status = 404 THEN MsgNotFound
  ELSE IF status = 429 THEN MsgRateLimit
  ELSE IF status = 500 \/ status = 502 \/ status = 503 THEN MsgUnavailable
  ELSE userMessage

\* Mutant: the failure response carries the broker's body as data.
handleError_withData(o, userMessage) ==
  IGResponse(FALSE, DataObj("body"), <<>>, userMessage, NoError,
             DebugObj(o.status, o.body))

\* IGClient.handleError on an axios error (o.kind is "http" or "network").
handleError(o, userMessage) ==
  LET status == o.status
      errorData == IF o.kind = "http" THEN o.body ELSE "none"
      errorCode == IF errorData = "full" THEN UpstreamCode ELSE "UNKNOWN_ERROR"
      errorMessage ==
        IF errorData = "full" THEN UpstreamMessage
        ELSE IF errorData = "text" THEN UpstreamText
        ELSE AxiosMessage
  IN IGResponse(FALSE, DataUndefined, <<>>,
                IF o.kind = "http" THEN friendlyMessage(status, userMessage)
                ELSE userMessage,
                [errorCode |-> errorCode, errorMessage |-> errorMessage],
                [DebugObj(IF o.kind = "http" THEN status ELSE 0,
                          IF errorData = "none" THEN "" ELSE errorData)
                   EXCEPT !.request = o.request])

\* handleError on a non-axios error (an exception inside the try block).
handleThrown(userMessage) ==
  IGResponse(FALSE, DataUndefined, <<>>, userMessage,
             [errorCode |-> "UNKNOWN_ERROR", errorMessage |-> TypeErrorMessage],
             DebugObj(0, ""))

\* What the try block of a client method raises on the broker's answer:
\* "axios" when the request fails, "TypeError" when a field is read from a
\* null body, "" when the block runs to its return.
FieldTools == {"ig_get_accounts", "ig_get_positions", "ig_get_working_orders"}
WrapTools == {"ig_get_open_positions", "ig_get_historical_prices"}

Raised(name, o) ==
  IF o.kind # "ok" THEN "axios"
  ELSE IF name = "ig_login"
       THEN IF o.cst # "" /\ o.xst # "" /\ o.body = "null" THEN "TypeError" ELSE ""
  ELSE IF name \in FieldTools \cup WrapTools /\ o.body = "null" THEN "TypeError"
  ELSE ""

\* The JSON body of a broker request, "" (0 for size) for a key it lacks.
NoPayload ==
  [dealId |-> "", epic |-> "", direction |-> "", size |-> 0,
   orderType |-> "", timeInForce |-> ""]

\* Mutant: the position is closed in the direction it was opened in.
closePosition_sameDirection(dealId, direction, size) ==
  [NoPayload EXCEPT !.dealId = dealId, !.direction = direction,
                    !.size = size, !.orderType = "MARKET",
                    !.timeInForce = "FILL_OR_KILL"]

\* IGClient.closePosition: the data of its DELETE /positions/otc.
closePosition(dealId, direction, size) ==
  [NoPayload EXCEPT !.dealId = dealId,
                    !.direction = IF direction = "BUY" THEN "SELL" ELSE "BUY",
                    !.size = size, !.orderType = "MARKET",
                    !.timeInForce = "FILL_OR_KILL"]

\* The keys of an order whose values are numbers.
NumberKeys == {"size", "level"}

\* `=== undefined` for the value of a key.
IsUndefined(key, value) == IF key \in NumberKeys THEN value = 0 ELSE value = ""

\* Mutant: no key is deleted.
stripUndefined_keepsAll(payload) == payload

\* Object.keys(payload).forEach(key => payload[key] === undefined &&
\* delete payload[key])
stripUndefined(payload) ==
  [key \in {k \in DOMAIN payload : ~IsUndefined(k, payload[k])} |-> payload[key]]

\* IGClient.placeOrder: the payload of its POST /positions/otc.
placeOrder(request) ==
  stripUndefined(
    [epic |-> request.epic,
     expiry |-> request.expiry,
     direction |-> request.direction,
     size |-> request.size,
     orderType |-> IF request.orderType # "" THEN request.orderType ELSE "MARKET",
     timeInForce |-> IF request.timeInForce # "" THEN request.timeInForce
                     ELSE "EXECUTE_AND_ELIMINATE",
     level |-> request.level,
     guaranteedStop |-> IF request.guaranteedStop = "true" THEN "true" ELSE "false",
     forceOpen |-> IF request.forceOpen # "false" THEN "true" ELSE "false"])

\* Mutant: a login response without the X-SECURITY-TOKEN header is accepted.
authenticate_cstOnly(o) ==
  IF Raised("ig_login", o) = "axios" THEN handleError(o, MsgAuthFailed)
  ELSE IF Raised("ig_login", o) = "TypeError" THEN handleThrown(MsgAuthFailed)
  ELSE IF o.cst = ""
       THEN IGResponse(FALSE, DataUndefined, <<>>, MsgNoTokens,
              [errorCode |-> "AUTH_ERROR", errorMessage |-> "Missing authentication tokens in response"],
              [DebugObj(o.status, "headers") EXCEPT !.headers = <<o.cst, o.xst>>])
       ELSE IGResponse(TRUE, DataObj("session"),
              << [cst |-> o.cst, xSecurityToken |-> o.xst,
                  accountId |-> o.accountId, authenticated |-> TRUE] >>,
              MsgLoginOk, NoError, DebugAbsent)

\* IGClient.authenticate, from the broker's answer to POST /session.
authenticate(o) ==
  IF Raised("ig_login", o) = "axios" THEN handleError(o, MsgAuthFailed)
  ELSE IF Raised("ig_login", o) = "TypeError" THEN handleThrown(MsgAuthFailed)
  ELSE IF o.cst = "" \/ o.xst = ""
       THEN IGResponse(FALSE, DataUndefined, <<>>, MsgNoTokens,
              [errorCode |-> "AUTH_ERROR", errorMessage |-> "Missing authentication tokens in response"],
              [DebugObj(o.status, "headers") EXCEPT !.headers = <<o.cst, o.xst>>])
       ELSE IGResponse(TRUE, DataObj("session"),
              << [cst |-> o.cst, xSecurityToken |-> o.xst,
                  accountId |-> o.accountId, authenticated |-> TRUE] >>,
              MsgLoginOk, NoError, DebugAbsent)

\* Array.prototype.filter with p => p.status === 'OPEN'.
RECURSIVE filterOpen(_)
\* Mutant: only the first OPEN position is kept.
filterOpen_firstOnly(positions) ==
  LET open == SelectSeq(positions, LAMBDA p : p.status = "OPEN")
  IN IF open = <<>> THEN <<>> ELSE <<Head(open)>>

filterOpen(positions) ==
  IF positions = <<>> THEN <<>>
  ELSE LET p == Head(positions)
           rest == filterOpen(Tail(positions))
       IN IF p.status = "OPEN" THEN <<p>> \o rest ELSE rest

\* Mutant: the methods that return response.data return an object of
\* their own making.
returnValue_rebuilt(name, o) ==
  IGResponse(TRUE,
    IF name = "ig_get_positions"
    THEN IF o.body = "full" THEN DataList(o.positions) ELSE DataUndefined
    ELSE IF name = "ig_get_open_positions"
    THEN IF o.body = "full" THEN DataList(filterOpen(o.positions))
         ELSE DataList(<<>>)
    ELSE IF name \in FieldTools
    THEN IF o.body = "full" THEN DataObj("list") ELSE DataUndefined
    ELSE IF name \in WrapTools THEN DataObj("list")
    ELSE DataObj("full"),
    <<>>, MsgCallOk, NoError, DebugAbsent)

\* The value a per-resource method returns when its try block runs through.
returnValue(name, o) ==
  IGResponse(TRUE,
    IF name = "ig_get_positions"
    THEN IF o.body = "full" THEN DataList(o.positions) ELSE DataUndefined
    ELSE IF name = "ig_get_open_positions"
    THEN IF o.body = "full" THEN DataList(filterOpen(o.positions))
         ELSE DataList(<<>>)
    ELSE IF name \in FieldTools
    THEN IF o.body = "full" THEN DataObj("list") ELSE DataUndefined
    ELSE IF name \in WrapTools THEN DataObj("list")
    ELSE IF o.body = "null" THEN DataNull
    ELSE DataObj(o.body),
    <<>>, MsgCallOk, NoError, DebugAbsent)

\* Mutant: the method has no catch, its promise is rejected.
clientCall_noCatch(name, o) ==
  IF Raised(name, o) = "" THEN returnValue(name, o)
  ELSE [NoResult EXCEPT !.thrown = TRUE]

\* The per-resource methods of IGClient, from the broker's answer.
clientCall(name, o) ==
  IF Raised(name, o) = "axios" THEN handleError(o, MsgCallFailed)
  ELSE IF Raised(name, o) = "TypeError" THEN handleThrown(MsgCallFailed)
  ELSE returnValue(name, o)

\* ------------------------------------------------------------ dispatcher
\* Mutant: a missing session is let through, only an unauthenticated one
\* is refused.
ensureAuthenticated_nullPasses(ss, connectionId) ==
  LET session == getSession(ss, connectionId)
  IN IF session # <<>> /\ ~session[1].authenticated
     THEN MsgNotAuthenticated
     ELSE ""

ensureAuthenticated(ss, connectionId) ==
  LET session == getSession(ss, connectionId)
  IN IF session = <<>> \/ ~session[1].authenticated
     THEN MsgNotAuthenticated
     ELSE ""

\* Mutant: the debug argument is dropped.
formatResponse_noDebug(data, userMessage, debug) ==
  [message |-> IF userMessage = "" THEN MsgDefault ELSE userMessage,
   data |-> data,
   debug |-> DebugAbsent]

\* `if (debug && typeof debug === 'object') result.debug = debug`
formatResponse(data, userMessage, debug) ==
  [message |-> IF userMessage = "" THEN MsgDefault ELSE userMessage,
   data |-> data,
   debug |-> debug]

\* JSON.stringify followed by the caller's JSON.parse: a key whose value is
\* undefined is dropped, null stays null.
JsonText(obj) ==
  [message |-> obj.message,
   data |-> IF obj.data = DataUndefined THEN DataAbsent ELSE obj.data,
   debug |-> obj.debug]

\* The machine a handler runs on: ac = authenticatedConnections,
\* ss = sessions, cl = clients, inf = inflight, the envelopes and broker
\* requests produced so far in this step, and key = sessionKey.
Machine ==
  [ac |-> authenticatedConnections, ss |-> sessions, cl |-> clients,
   inf |-> inflight, out |-> <<>>, sent |-> <<>>, key |-> sessionKey]

\* `return { content: [{ text }], isError }` of executeToolCall.
Return(M, connectionId, name, args, isError, data, userMessage, debug) ==
  [M EXCEPT !.out = Append(@,
     [conn |-> connectionId, name |-> name, args |-> args,
      isError |-> isError,
      text |-> JsonText(formatResponse(data, userMessage, debug))])]

\* A debug object that carries no status: the security policy of a refusal,
\* the hidden session token of a login, the stack of a caught exception.
DebugOther == DebugObj(0, "")

\* A broker request: the headers of the client that sends it and, for
\* POST /session, the body.
Request(connectionId, name, client, identifier, password) ==
  [conn |-> connectionId, op |-> name, apiKey |-> client.apiKey,
   CST |-> client.CST, XST |-> client.XST,
   identifier |-> identifier, password |-> password, payload |-> NoPayload]

\* `await client.<method>(...)`: the request leaves and the call is
\* suspended until BrokerRespond.
Await(M, meta, connectionId, name, args, credentials, request) ==
  [M EXCEPT
     !.sent = Append(@, request),
     !.inf = Append(@,
       [transport |-> meta.transport, header |-> meta.header,
        orig |-> meta.orig, conn |-> connectionId, name |-> name,
        args |-> args, credentials |-> credentials, clientLive |-> TRUE,
        overtaken |-> FALSE,
        \* history: the X-IG-API-KEY the POST /session request carried
        sentKey |-> IF name = "ig_login" THEN request.apiKey ELSE ""])]

\* case 'mcp_authenticate'
mcpAuthenticate(M, connectionId, name, args) ==
  LET providedApiKey == args.apiKey
      r == authenticateConnection(M.ac, connectionId, providedApiKey)
  IN IF MCP_SERVER_API_KEY = ""
     THEN Return(M, connectionId, name, args, FALSE, DataObj("authenticated"),
                 MsgOpen, DebugAbsent)
     ELSE IF r.ok
          THEN Return([M EXCEPT !.ac = r.ac], connectionId, name, args,
                      FALSE, DataObj("authenticated"), MsgGateOk, DebugAbsent)
          ELSE Return([M EXCEPT !.ac = r.ac], connectionId, name, args,
                      TRUE, DataNull, MsgGateBad, DebugOther)

\* Mutant: only the username is looked at.
credentialsFromTool_usernameOnly(args) == args.username # ""

\* !!(args?.username || args?.password || args?.apiKey)
credentialsFromTool(args) ==
  args.username # "" \/ args.password # "" \/ args.apiKey # ""

\* Mutant: the credentials kept for the Session Store are the environment's.
igLogin_cachesEnvironment(M, meta, connectionId, name, args) ==
  LET credentials ==
        [username |-> IF args.username # "" THEN args.username ELSE USERNAME,
         password |-> IF args.password # "" THEN args.password ELSE PASSWORD,
         apiKey |-> IF args.apiKey # "" THEN args.apiKey ELSE API_KEY]
      environment ==
        [username |-> USERNAME, password |-> PASSWORD, apiKey |-> API_KEY]
      newClient == IGClient(credentials.apiKey)
      client == M.cl[connectionId][1]
      \* clients.delete + clients.set: calls suspended on this connection
      \* keep the client they captured, which the map no longer holds.
      orphaned ==
        [i \in DOMAIN M.inf |->
           IF M.inf[i].conn = connectionId
           THEN [M.inf[i] EXCEPT !.clientLive = FALSE] ELSE M.inf[i]]
  IN IF REQUIRE_ENV_CREDENTIALS /\ credentialsFromTool(args)
     THEN Return(M, connectionId, name, args, TRUE, DataNull, MsgStrict, DebugOther)
     ELSE IF credentials.username = "" \/ credentials.password = ""
             \/ credentials.apiKey = ""
     THEN Return(M, connectionId, name, args, TRUE, DataNull, MsgMissing, DebugOther)
     ELSE IF args.apiKey # "" /\ args.apiKey # API_KEY
     THEN Await([M EXCEPT !.cl[connectionId] = <<newClient>>, !.inf = orphaned],
                meta, connectionId, name, args, <<environment>>,
                Request(connectionId, name, newClient,
                        credentials.username, credentials.password))
     ELSE Await(M, meta, connectionId, name, args, <<environment>>,
                Request(connectionId, name, client,
                        credentials.username, credentials.password))

\* case 'ig_login', up to the awaited authenticate
igLogin(M, meta, connectionId, name, args) ==
  LET credentials ==
        [username |-> IF args.username # "" THEN args.username ELSE USERNAME,
         password |-> IF args.password # "" THEN args.password ELSE PASSWORD,
         apiKey |-> IF args.apiKey # "" THEN args.apiKey ELSE API_KEY]
      newClient == IGClient(credentials.apiKey)
      client == M.cl[connectionId][1]
      \* clients.delete + clients.set: calls suspended on this connection
      \* keep the client they captured, which the map no longer holds.
      orphaned ==
        [i \in DOMAIN M.inf |->
           IF M.inf[i].conn = connectionId
           THEN [M.inf[i] EXCEPT !.clientLive = FALSE] ELSE M.inf[i]]
  IN IF REQUIRE_ENV_CREDENTIALS /\ credentialsFromTool(args)
     THEN Return(M, connectionId, name, args, TRUE, DataNull, MsgStrict, DebugOther)
     ELSE IF credentials.username = "" \/ credentials.password = ""
             \/ credentials.apiKey = ""
     THEN Return(M, connectionId, name, args, TRUE, DataNull, MsgMissing, DebugOther)
     ELSE IF args.apiKey # "" /\ args.apiKey # API_KEY
     THEN Await([M EXCEPT !.cl[connectionId] = <<newClient>>, !.inf = orphaned],
                meta, connectionId, name, args, <<credentials>>,
                Request(connectionId, name, newClient,
                        credentials.username, credentials.password))
     ELSE Await(M, meta, connectionId, name, args, <<credentials>>,
                Request(connectionId, name, client,
                        credentials.username, credentials.password))

\* Mutant: a logout drops the calls of its connection that are suspended on
\* the broker.
igLogout_cancelsPending(M, connectionId, name, args) ==
  LET authError == ensureAuthenticated(M.ss, connectionId)
      M1 == [M EXCEPT !.ss = getSessionStore(@, connectionId)]
      kept == SelectSeq(M1.inf, LAMBDA c : c.conn # connectionId)
  IN IF authError # ""
     THEN Return(M1, connectionId, name, args, TRUE, DataNull, authError, DebugAbsent)
     ELSE Return([M1 EXCEPT !.ss = clearSession(@, connectionId), !.inf = kept],
                 connectionId, name, args, FALSE, DataNull, MsgLoggedOut, DebugAbsent)

\* case 'ig_logout'
igLogout(M, connectionId, name, args) ==
  LET authError == ensureAuthenticated(M.ss, connectionId)
      M1 == [M EXCEPT !.ss = getSessionStore(@, connectionId)]
      \* history: the logins of this connection that are suspended now
      \* were started before this logout
      marked ==
        [i \in DOMAIN M1.inf |->
           IF M1.inf[i].conn = connectionId /\ M1.inf[i].name = "ig_login"
           THEN [M1.inf[i] EXCEPT !.overtaken = TRUE] ELSE M1.inf[i]]
  IN IF authError # ""
     THEN Return(M1, connectionId, name, args, TRUE, DataNull, authError, DebugAbsent)
     ELSE Return([M1 EXCEPT !.ss = clearSession(@, connectionId), !.inf = marked],
                 connectionId, name, args, FALSE, DataNull, MsgLoggedOut, DebugAbsent)

\* callAPI: `headers: { Version: version, ...additionalHeaders }` of the
\* request config, which axios lays over the instance's default headers.
callAPIHeader(name, args, default) ==
  IF name = "ig_call_api" /\ args.additionalHeaders # ""
  THEN args.additionalHeaders ELSE default

\* the resource cases, 'ig_get_accounts' .. 'ig_call_api', up to the await
igResource(M, meta, connectionId, name, args) ==
  LET authError == ensureAuthenticated(M.ss, connectionId)
      M1 == [M EXCEPT !.ss = getSessionStore(@, connectionId)]
      session == getSession(M1.ss, connectionId)
      client == IF session # <<>>
                THEN clientSetSession(M1.cl[connectionId][1], session[1])
                ELSE M1.cl[connectionId][1]
      payload ==
        IF name = "ig_close_position"
        THEN closePosition(args.dealId, args.direction, args.size)
        ELSE IF name = "ig_place_order"
        THEN placeOrder([epic |-> args.epic, expiry |-> args.expiry,
                         direction |-> args.direction, size |-> args.size,
                         orderType |-> args.orderType, level |-> args.level,
                         timeInForce |-> args.timeInForce,
                         guaranteedStop |-> args.guaranteedStop,
                         forceOpen |-> args.forceOpen])
        ELSE NoPayload
  IN IF authError # ""
     THEN Return(M1, connectionId, name, args, TRUE, DataNull, authError, DebugAbsent)
     ELSE Await([M1 EXCEPT !.cl[connectionId] = <<client>>],
                meta, connectionId, name, args, <<>>,
                [Request(connectionId, name, client, "", "")
                   EXCEPT !.payload = payload,
                          !.CST = callAPIHeader(name, args, @)])

\* Mutant: ig_login drops the connection's session and credentials before
\* it authenticates.
executeToolCall_loginResets(M, meta, connectionId, name, args) ==
  LET M1 == [M EXCEPT !.cl = getClient(@, connectionId)]
  IN IF ~isConnectionAuthenticated(M1.ac, connectionId) /\ name # "mcp_authenticate"
     THEN Return(M1, connectionId, name, args, TRUE, DataNull, MsgUnauthorized,
                 DebugOther)
     ELSE CASE name = "mcp_authenticate" -> mcpAuthenticate(M1, connectionId, name, args)
            [] name = "ig_login" ->
                 igLogin([M1 EXCEPT !.ss = clearSession(@, connectionId)],
                         meta, connectionId, name, args)
            [] name = "ig_logout" -> igLogout(M1, connectionId, name, args)
            [] name \in ResourceTools -> igResource(M1, meta, connectionId, name, args)
            [] OTHER -> Return(M1, connectionId, name, args, TRUE, DataNull,
                               MsgUnknownTool, DebugAbsent)

\* executeToolCall, from its entry to its return or its first await.
executeToolCall(M, meta, connectionId, name, args) ==
  LET M1 == [M EXCEPT !.cl = getClient(@, connectionId)]
  IN IF ~isConnectionAuthenticated(M1.ac, connectionId) /\ name # "mcp_authenticate"
     THEN Return(M1, connectionId, name, args, TRUE, DataNull, MsgUnauthorized,
                 DebugOther)
     ELSE CASE name = "mcp_authenticate" -> mcpAuthenticate(M1, connectionId, name, args)
            [] name = "ig_login" -> igLogin(M1, meta, connectionId, name, args)
            [] name = "ig_logout" -> igLogout(M1, connectionId, name, args)
            [] name \in ResourceTools -> igResource(M1, meta, connectionId, name, args)
            [] OTHER -> Return(M1, connectionId, name, args, TRUE, DataNull,
                               MsgUnknownTool, DebugAbsent)

\* The catch block of executeToolCall.
catchUnexpected(M, connectionId, name, args) ==
  Return(M, connectionId, name, args, TRUE, DataNull, MsgUnexpected, DebugOther)

\* What axios hands to the client method that c is suspended in: the
\* broker's answer o together with the config of the request, whose data is
\* the serialized body; of the bodies the model keeps the identifier and
\* the password of POST /session.
Answered(c, o) ==
  IF c.name = "ig_login"
  THEN [o EXCEPT !.request = <<c.credentials[1].username, c.credentials[1].password>>]
  ELSE o

\* The result the awaited client method resolves with.
clientResult(name, o) ==
  IF name = "ig_login" THEN authenticate(o) ELSE clientCall(name, o)

\* Mutant: a successful login stores its session and not its credentials.
resumeToolCall_sessionOnly(M, c, o) ==
  LET result == clientResult(c.name, Answered(c, o))
      session == result.session[1]
      \* authenticate and client.setSession write the captured client's headers
      cl1 == IF c.clientLive
             THEN [M.cl EXCEPT ![c.conn] = <<clientSetSession(@[1], session)>>]
             ELSE M.cl
  IN IF result.thrown
     THEN catchUnexpected(M, c.conn, c.name, c.args)
     ELSE IF c.name = "ig_login"
     THEN IF result.success /\ result.session # <<>>
          THEN Return([M EXCEPT
                         !.ss = setSession(@, c.conn, session),
                         !.cl = cl1,
                         !.key[c.conn] = c.sentKey],
                      c.conn, c.name, c.args, FALSE, DataObj(session.accountId),
                      result.userMessage, DebugOther)
          ELSE Return(M, c.conn, c.name, c.args, TRUE, DataNull,
                      result.userMessage, result.debug)
     ELSE Return(M, c.conn, c.name, c.args, ~result.success, result.data,
                 result.userMessage, result.debug)

\* executeToolCall, from the resumption after the awaited broker request
\* to its return.  c is the suspended call, o the broker's answer.
resumeToolCall(M, c, o) ==
  LET result == clientResult(c.name, Answered(c, o))
      session == result.session[1]
      \* authenticate and client.setSession write the captured client's headers
      cl1 == IF c.clientLive
             THEN [M.cl EXCEPT ![c.conn] = <<clientSetSession(@[1], session)>>]
             ELSE M.cl
  IN IF result.thrown
     THEN catchUnexpected(M, c.conn, c.name, c.args)
     ELSE IF c.name = "ig_login"
     THEN IF result.success /\ result.session # <<>>
          THEN Return([M EXCEPT
                         !.ss = setCredentials(setSession(@, c.conn, session),
                                               c.conn, c.credentials[1]),
                         !.cl = cl1,
                         !.key[c.conn] = c.sentKey],
                      c.conn, c.name, c.args, FALSE, DataObj(session.accountId),
                      result.userMessage, DebugOther)
          ELSE Return(M, c.conn, c.name, c.args, TRUE, DataNull,
                      result.userMessage, result.debug)
     ELSE Return(M, c.conn, c.name, c.args, ~result.success, result.data,
                 result.userMessage, result.debug)

\* ------------------------------------------------------------ front ends
Commit(M) ==
  /\ authenticatedConnections' = M.ac
  /\ sessions' = M.ss
  /\ clients' = M.cl
  /\ inflight' = M.inf
  /\ out' = M.out
  /\ sent' = M.sent
  /\ sessionKey' = [c \in ConnIds |->
                      IF isAuthenticated(M.ss, c) THEN M.key[c] ELSE ""]

\* The body of a POST /mcp: json is "invalid" for a text that is not JSON,
\* "null" for the JSON value null, "scalar" for a JSON number, string,
\* boolean or array and "object" for a JSON object, of which jsonrpc and
\* method are the values of these keys ("" when missing) and params tells
\* whether it has a params object.
Body(json, jsonrpc, method, params) ==
  [json |-> json, jsonrpc |-> jsonrpc, method |-> method, params |-> params]

NoBody == Body("", "", "", FALSE)

\* JSON-RPC responses: none, an error object with its code, a result.
NoRes == [kind |-> "none", code |-> 0]
RpcError(code) == [kind |-> "error", code |-> code]
RpcResult == [kind |-> "result", code |-> 0]
\* The request reaches handleCallTool.
RpcCall == [kind |-> "call", code |-> 0]

\* handleMCPRequest up to the call of a tool.  An exception in the try
\* block (JSON.parse of an invalid text, request.jsonrpc of null,
\* request.params.name without params) ends in the catch block.
handleMCPRequest(body) ==
  IF body.json = "invalid" THEN RpcError(-32700)
  ELSE IF body.json = "null" THEN RpcError(-32700)
  ELSE IF body.jsonrpc # "2.0" THEN RpcError(-32600)
  ELSE IF body.method = "tools/list" THEN RpcResult
  ELSE IF body.method = "tools/call"
       THEN IF body.params THEN RpcCall ELSE RpcError(-32700)
  ELSE IF body.method = "initialize" THEN RpcResult
  ELSE RpcError(-32601)

\* What a step handled: a request, or the broker's answer to a suspended
\* call together with the result the client method made of it.
Event(step, transport, header, name, args) ==
  [step |-> step, transport |-> transport, header |-> header,
   name |-> name, args |-> args, outcome |-> NoOutcome, result |-> NoResult,
   body |-> NoBody, overtaken |-> FALSE]

\* A caller is known by its transport and by the key it presents with its
\* requests.
Caller(transport, header) == <<transport, header>>

LoggedOut(o) == \E i \in DOMAIN o : o[i].name = "ig_logout" /\ ~o[i].isError

\* Some call of the step was an mcp_authenticate with the configured secret.
Presents(o) ==
  \E i \in DOMAIN o :
    /\ o[i].name = "mcp_authenticate"
    /\ MCP_SERVER_API_KEY # ""
    /\ o[i].args.apiKey = MCP_SERVER_API_KEY

History(transport, header, o) ==
  /\ loggedIn' = IF LoggedOut(o) THEN {} ELSE loggedIn
  /\ presented' = IF Presents(o) THEN presented \cup {Caller(transport, header)}
                  ELSE presented

RemoveAt(q, i) == [j \in 1..(Len(q) - 1) |-> IF j < i THEN q[j] ELSE q[j + 1]]

\* The loop over SessionManager.getAllSessions() of the /mcp handler: the
\* first identity, in the Map's order, with an authenticated session that
\* passes the gate; the current identity when there is none.
findAuthenticatedConnection(ss, ac, current) ==
  LET all == getAllSessions(ss)
      hits == { i \in DOMAIN all :
                  /\ all[i].session # <<>>
                  /\ all[i].session[1].authenticated
                  /\ isConnectionAuthenticated(ac, all[i].connId) }
  IN IF hits = {} THEN current
     ELSE all[CHOOSE i \in hits : \A j \in hits : i <= j].connId

\* server.setRequestHandler(CallToolRequestSchema, ...): a tools/call on the
\* stdio transport.
StdioCallUpTo(limit, name, args) ==
  LET meta == [transport |-> "stdio", header |-> "", orig |-> currentConnectionId]
      M == executeToolCall(Machine, meta, currentConnectionId, name, args)
  IN /\ calls < limit
     /\ Len(M.inf) <= MaxInflight
     /\ calls' = calls + 1
     /\ Commit(M)
     /\ ev' = Event("call", "stdio", "", name, args)
     /\ res' = NoRes
     /\ History("stdio", "", M.out)
     /\ UNCHANGED <<config, currentConnectionId, nextWeb>>

StdioCall(name, args) == StdioCallUpTo(MaxCalls, name, args)

\* POST /mcp with a tools/call body and the x-mcp-api-key header
\* apiKeyHeader ("" when the request has none).
McpToolsCall(apiKeyHeader, name, args) ==
  LET originalConnectionId == currentConnectionId
      withHeader == apiKeyHeader # "" /\ MCP_SERVER_API_KEY # ""
      webConnectionId == nextWeb + 1
      meta == [transport |-> "mcp", header |-> apiKeyHeader,
               orig |-> originalConnectionId]
      MA == executeToolCall(Machine, meta, webConnectionId, "mcp_authenticate",
                            [NoArgs EXCEPT !.apiKey = apiKeyHeader])
      authResult == MA.out[Len(MA.out)]
      selected ==
        IF withHeader
        THEN IF authResult.isError THEN originalConnectionId ELSE webConnectionId
        ELSE IF ~isConnectionAuthenticated(authenticatedConnections, currentConnectionId)
             THEN findAuthenticatedConnection(sessions, authenticatedConnections,
                                              currentConnectionId)
             ELSE currentConnectionId
      M == executeToolCall(IF withHeader THEN MA ELSE Machine,
                           meta, selected, name, args)
      suspended == Len(M.inf) > Len(inflight)
  IN /\ calls < MaxCalls
     /\ withHeader => nextWeb < MaxWeb
     /\ Len(M.inf) <= MaxInflight
     /\ calls' = calls + 1
     /\ Commit(M)
     /\ currentConnectionId' = IF suspended THEN selected ELSE originalConnectionId
     /\ nextWeb' = IF withHeader THEN nextWeb + 1 ELSE nextWeb
     /\ ev' = [Event("call", "mcp", apiKeyHeader, name, args)
                 EXCEPT !.body = Body("object", "2.0", "tools/call", TRUE)]
     /\ res' = IF suspended THEN NoRes ELSE RpcResult
     /\ History("mcp", apiKeyHeader, M.out)
     /\ UNCHANGED config

\* POST /mcp with a body that does not reach handleCallTool.
McpOther(apiKeyHeader, body) ==
  LET originalConnectionId == currentConnectionId
      withHeader == apiKeyHeader # "" /\ MCP_SERVER_API_KEY # ""
      webConnectionId == nextWeb + 1
      meta == [transport |-> "mcp", header |-> apiKeyHeader,
               orig |-> originalConnectionId]
      MA == executeToolCall(Machine, meta, webConnectionId, "mcp_authenticate",
                            [NoArgs EXCEPT !.apiKey = apiKeyHeader])
      M == IF withHeader THEN MA ELSE Machine
      response == handleMCPRequest(body)
  IN /\ response # RpcCall
     /\ calls < MaxCalls
     /\ withHeader => nextWeb < MaxWeb
     /\ calls' = calls + 1
     /\ Commit(M)
     /\ currentConnectionId' = originalConnectionId
     /\ nextWeb' = IF withHeader THEN nextWeb + 1 ELSE nextWeb
     /\ ev' = [Event("rpc", "mcp", apiKeyHeader, "", NoArgs) EXCEPT !.body = body]
     /\ res' = response
     /\ History("mcp", apiKeyHeader, M.out)
     /\ UNCHANGED config

\* POST /api/login with the body {apiKey}.
ApiLogin(apiKey) ==
  LET webConnectionId == nextWeb + 1
      originalConnectionId == currentConnectionId
      meta == [transport |-> "apilogin", header |-> apiKey,
               orig |-> originalConnectionId]
      M1 == executeToolCall(Machine, meta, webConnectionId, "mcp_authenticate",
                            [NoArgs EXCEPT !.apiKey = apiKey])
      mcpAuthError == M1.out[Len(M1.out)].isError
      M2 == IF M1.cl[webConnectionId] = <<>>
            THEN [M1 EXCEPT !.cl[webConnectionId] = <<IGClient(API_KEY)>>]
            ELSE M1
      M == IF mcpAuthError THEN M1
           ELSE executeToolCall(M2, meta, webConnectionId, "ig_login", NoArgs)
      suspended == Len(M.inf) > Len(inflight)
  IN /\ calls < MaxCalls
     /\ nextWeb < MaxWeb
     /\ Len(M.inf) <= MaxInflight
     /\ calls' = calls + 1
     /\ Commit(M)
     /\ currentConnectionId' = IF suspended THEN webConnectionId
                               ELSE originalConnectionId
     /\ nextWeb' = nextWeb + 1
     /\ ev' = Event("call", "apilogin", apiKey, "ig_login", NoArgs)
     /\ res' = NoRes
     /\ History("apilogin", apiKey, M.out)
     /\ UNCHANGED config

\* The broker answers the request of the i-th suspended call with o: the
\* call resumes and returns, and an HTTP handler restores the identity it
\* replaced.
BrokerRespond(i, o) ==
  LET c == inflight[i]
      M == resumeToolCall([Machine EXCEPT !.inf = RemoveAt(inflight, i)], c, o)
      done == M.out[Len(M.out)]
  IN /\ Commit(M)
     /\ currentConnectionId' = IF c.transport = "stdio" THEN currentConnectionId
                               ELSE c.orig
     /\ ev' = [Event("response", c.transport, c.header, c.name, c.args)
                 EXCEPT !.outcome = o,
                        !.result = clientResult(c.name, Answered(c, o)),
                        !.overtaken = c.overtaken]
     /\ res' = IF c.transport = "mcp" THEN RpcResult ELSE NoRes
     /\ loggedIn' = IF c.name = "ig_login" /\ ~done.isError
                    THEN loggedIn \cup {Caller(c.transport, c.header)}
                    ELSE loggedIn
     /\ UNCHANGED <<config, nextWeb, calls, presented>>

Headers == {"", GateSecret, WrongKey}

\* IG_USERNAME, IG_PASSWORD and IG_API_KEY of the environment: all set, none
\* set, or the API key alone left out.
EnvChoices ==
  { <<"", "", "">>, <<EnvUser, EnvPass, EnvKey>>, <<EnvUser, EnvPass, "">> }

Init ==
  /\ MCP_SERVER_API_KEY \in {"", GateSecret}
  /\ REQUIRE_AUTHENTICATION \in BOOLEAN
  /\ REQUIRE_ENV_CREDENTIALS \in BOOLEAN
  /\ \E e \in EnvChoices : USERNAME = e[1] /\ PASSWORD = e[2] /\ API_KEY = e[3]
  /\ authenticatedConnections = {}
  /\ sessions = <<>>
  /\ clients = [c \in ConnIds |-> <<>>]
  /\ currentConnectionId = StartupConnectionId
  /\ nextWeb = 0
  /\ calls = 0
  /\ inflight = <<>>
  /\ ev = Event("init", "", "", "", NoArgs)
  /\ out = <<>>
  /\ sent = <<>>
  /\ res = NoRes
  /\ loggedIn = {}
  /\ presented = {}
  /\ sessionKey = [c \in ConnIds |-> ""]

Next ==
  \/ \E name \in CalledTools : \E args \in ArgsFor(name) : StdioCall(name, args)
  \/ \E h \in Headers : \E name \in McpTools : \E args \in McpArgsFor(name) :
       McpToolsCall(h, name, args)
  \/ \E k \in Headers : ApiLogin(k)
  \/ \E i \in DOMAIN inflight : \E o \in OutcomesFor(inflight[i].name) :
       BrokerRespond(i, o)

Spec == Init /\ [][Next]_vars

\* ---------------------------------------------------------- SessionSpec
\* One stdio connection, the gate off and the environment's credentials
\* set: logins with and without credentials of their own, logouts and
\* session tools in every order and overlap, answered by the broker with
\* the sessions of two accounts or with a failure.
SessionSpecTools == {"ig_login", "ig_logout", "ig_get_accounts", "ig_call_api"}

SessionArgsFor(name) ==
  CASE name = "ig_login" ->
         { NoArgs,
           [NoArgs EXCEPT !.username = ToolUser, !.password = ToolPass,
                          !.apiKey = ToolKey] }
    [] name = "ig_call_api" ->
         { NoArgs, [NoArgs EXCEPT !.additionalHeaders = "cst-own"] }
    [] OTHER -> {NoArgs}

SessionOutcomesFor(name) ==
  IF name = "ig_login"
  THEN { Outcome("ok", 200, "cst-A", "xst-A", "acc-A", "full"),
         Outcome("ok", 200, "cst-B", "xst-B", "acc-B", "full"),
         Outcome("ok", 200, "cst-A", "", "acc-A", "full"),
         Outcome("http", 401, "", "", "", "full") }
  ELSE { Outcome("ok", 200, "", "", "", "full"),
         Outcome("http", 401, "", "", "", "full") }

SessionInit ==
  /\ Init
  /\ MCP_SERVER_API_KEY = "" /\ REQUIRE_AUTHENTICATION
  /\ ~REQUIRE_ENV_CREDENTIALS
  /\ USERNAME = EnvUser /\ PASSWORD = EnvPass /\ API_KEY = EnvKey

SessionNext ==
  \/ \E name \in SessionSpecTools : \E args \in SessionArgsFor(name) :
       StdioCallUpTo(MaxSessionCalls, name, args)
  \/ \E i \in DOMAIN inflight : \E o \in SessionOutcomesFor(inflight[i].name) :
       BrokerRespond(i, o)

SessionSpec == SessionInit /\ [][SessionNext]_vars

\* ------------------------------------------------------------- LiveSpec
\* One stdio connection with the gate on or off: gate authentications,
\* logins, logouts and a session tool in every order and overlap.  The
\* broker answers every request it has received, with a success or with a
\* failure: the requests are awaited axios calls, each of which settles.
LiveInit ==
  /\ Init
  /\ REQUIRE_AUTHENTICATION /\ ~REQUIRE_ENV_CREDENTIALS
  /\ USERNAME = EnvUser /\ PASSWORD = EnvPass /\ API_KEY = EnvKey

\* The broker answers one of the requests that are pending.
AnswerPending ==
  \E i \in DOMAIN inflight : \E o \in SessionOutcomesFor(inflight[i].name) :
    BrokerRespond(i, o)

LiveNext ==
  \/ \E k \in {GateSecret, WrongKey} :
       StdioCallUpTo(MaxSessionCalls, "mcp_authenticate",
                     [NoArgs EXCEPT !.apiKey = k])
  \/ \E name \in {"ig_login", "ig_logout", "ig_get_accounts"} :
       StdioCallUpTo(MaxSessionCalls, name, NoArgs)
  \/ AnswerPending

LiveSpec == LiveInit /\ [][LiveNext]_vars /\ WF_vars(AnswerPending)

\* ------------------------------------------------------------- WideSpec
\* The same server with the environment credentials set and tool
\* credentials allowed, driven over stdio with every tool and with the
\* answers of the broker in full, and over POST /mcp with the bodies that
\* are not tool calls.
WideHttpErrors == {400, 401, 403, 404, 429, 500, 502, 503, 504}
ErrorBodies == {"full", "bare", "text", "none"}
Statuses == {"OPEN", "CLOSED"}

\* The arrays of positions the broker can answer with; id is the place of
\* a position in the array.
PositionLists ==
  UNION { { [i \in 1..n |-> [id |-> i, status |-> f[i]]] : f \in [1..n -> Statuses] }
          : n \in 0..MaxPositions }

WideTools == {"mcp_authenticate", "ig_login", "ig_logout"} \cup ResourceTools

\* Optional keys of an order: each given alone, and all given together.
OrderOptions ==
  { [NoArgs EXCEPT !.expiry = "DFB"],
    [NoArgs EXCEPT !.orderType = "LIMIT", !.level = 7100],
    [NoArgs EXCEPT !.timeInForce = "FILL_OR_KILL"],
    [NoArgs EXCEPT !.guaranteedStop = "true"],
    [NoArgs EXCEPT !.guaranteedStop = "false"],
    [NoArgs EXCEPT !.forceOpen = "true"],
    [NoArgs EXCEPT !.forceOpen = "false"],
    [NoArgs EXCEPT !.expiry = "DFB", !.orderType = "LIMIT", !.level = 7100,
                   !.timeInForce = "FILL_OR_KILL", !.guaranteedStop = "true",
                   !.forceOpen = "false"] }

WideArgsFor(name) ==
  CASE name = "mcp_authenticate" -> { [NoArgs EXCEPT !.apiKey = GateSecret] }
    [] name = "ig_close_position" ->
         { [NoArgs EXCEPT !.dealId = id, !.direction = d, !.size = n]
             : id \in {"deal-1", "deal-2"}, d \in {"BUY", "SELL", ""}, n \in {1, 2} }
    [] name = "ig_place_order" ->
         { [NoArgs EXCEPT !.epic = "IX.D.FTSE.DAILY.IP", !.direction = d, !.size = n]
             : d \in {"BUY", "SELL"}, n \in {1, 2} }
         \cup { [o EXCEPT !.epic = "IX.D.FTSE.DAILY.IP", !.direction = "BUY",
                          !.size = 1] : o \in OrderOptions }
    [] OTHER -> {NoArgs}

WideFailures ==
  { Outcome("http", s, "", "", "", "full") : s \in WideHttpErrors }
  \cup { Outcome("http", 400, "", "", "", b) : b \in ErrorBodies }
  \cup { Outcome("network", 0, "", "", "", "none") }

\* Bodies of a 2xx answer to POST /positions/otc: an object that holds this
\* deal reference.
Confirmations == {"dealReference-1", "dealReference-2"}

\* Login answers of a second account, and of a body without accountId.
WideLoginOutcomes ==
  { Outcome("ok", 200, "cst-B", "xst-B", "acc-B", "full"),
    Outcome("ok", 200, "cst-B", "xst-B", "", "bare") }

WideOutcomesFor(name) ==
  IF name = "ig_login"
  THEN LoginOutcomes \cup WideLoginOutcomes \cup WideFailures
  ELSE IF name \in {"ig_get_positions", "ig_get_open_positions"}
  THEN { [Outcome("ok", 200, "", "", "", "full") EXCEPT !.positions = ps]
           : ps \in PositionLists }
       \cup { Outcome("ok", 200, "", "", "", b) : b \in {"bare", "null"} }
       \cup WideFailures
  ELSE IF name = "ig_place_order"
  THEN { Outcome("ok", 200, "", "", "", b) : b \in Bodies \cup Confirmations }
       \cup WideFailures
  ELSE { Outcome("ok", 200, "", "", "", b) : b \in Bodies } \cup WideFailures

RpcBodies ==
  { Body("invalid", "", "", FALSE), Body("null", "", "", FALSE),
    Body("scalar", "", "", FALSE),
    Body("object", "", "tools/call", TRUE),
    Body("object", "1.0", "tools/call", TRUE),
    Body("object", "2.0", "", FALSE),
    Body("object", "2.0", "resources/list", FALSE),
    Body("object", "2.0", "tools/list", FALSE),
    Body("object", "2.0", "initialize", FALSE),
    Body("object", "2.0", "tools/call", FALSE) }

WideInit ==
  /\ Init
  /\ ~REQUIRE_ENV_CREDENTIALS
  /\ USERNAME = EnvUser /\ API_KEY = EnvKey

WideNext ==
  \/ \E name \in WideTools : \E args \in WideArgsFor(name) : StdioCall(name, args)
  \/ \E h \in Headers : \E body \in RpcBodies : McpOther(h, body)
  \/ \E i \in DOMAIN inflight : \E o \in WideOutcomesFor(inflight[i].name) :
       BrokerRespond(i, o)

WideSpec == WideInit /\ [][WideNext]_vars

\* ------------------------------------------------------------ TradeSpec
\* POST /api/place-trades next to POST /api/login.  A request has one
\* trade: "epic" when the trade has an epic or an instrument name of the
\* handler's table, "instrument" when its name has to be searched, "none"
\* when the trades array is empty.
Trades == {"epic", "instrument", "none"}

\* The HTTP status of an answer of the endpoint; 0 while the handler is
\* suspended.
HttpRes(code) == [kind |-> "http", code |-> code]

\* The connection the handler works under: the current identity when it
\* passes the gate, otherwise the first identity of the Session Store that
\* has an authenticated session, otherwise the current identity.
tradeConnection(ss, ac, current) ==
  LET all == getAllSessions(ss)
      hits == { i \in DOMAIN all :
                  all[i].session # <<>> /\ all[i].session[1].authenticated }
  IN IF isConnectionAuthenticated(ac, current) \/ hits = {} THEN current
     ELSE all[CHOOSE i \in hits : \A j \in hits : i <= j].connId

\* The orderRequest the handler builds for a trade, as placeOrder sends it.
tradeOrder ==
  placeOrder([epic |-> "IX.D.FTSE.DAILY.IP", expiry |-> "DFB", direction |-> "BUY",
              size |-> 1, orderType |-> "LIMIT", level |-> 7100,
              timeInForce |-> "EXECUTE_AND_ELIMINATE",
              guaranteedStop |-> "", forceOpen |-> ""])

\* `await client.placeOrder(orderRequest, accountId)` of the handler.
tradePlaceOrder(M, meta, connectionId) ==
  Await(M, meta, connectionId, "ig_place_order", NoArgs, <<>>,
        [Request(connectionId, "ig_place_order", M.cl[connectionId][1], "", "")
           EXCEPT !.payload = tradeOrder])

\* The handler of POST /api/place-trades up to its first await, or to its
\* answer when it does not get that far.
ApiPlaceTrades(trade) ==
  LET meta == [transport |-> "placetrades", header |-> "",
               orig |-> currentConnectionId]
      connectionId ==
        tradeConnection(sessions, authenticatedConnections, currentConnectionId)
      passes == isConnectionAuthenticated(authenticatedConnections, connectionId)
      M1 == [Machine EXCEPT !.cl = getClient(@, connectionId),
                            !.ss = getSessionStore(@, connectionId)]
      session == getSession(M1.ss, connectionId)
      M2 == [M1 EXCEPT !.cl[connectionId] =
                         <<clientSetSession(@[1], session[1])>>]
      M == IF trade = "none" \/ ~passes THEN Machine
           ELSE IF ~isAuthenticated(M1.ss, connectionId) THEN M1
           ELSE IF trade = "instrument"
                THEN Await(M2, meta, connectionId, "ig_search_instruments",
                           NoArgs, <<>>,
                           Request(connectionId, "ig_search_instruments",
                                   M2.cl[connectionId][1], "", ""))
           ELSE tradePlaceOrder(M2, meta, connectionId)
  IN /\ calls < MaxCalls
     /\ Len(M.inf) <= MaxInflight
     /\ calls' = calls + 1
     /\ Commit(M)
     /\ ev' = Event("call", "placetrades", "", "api_place_trades", NoArgs)
     /\ res' = IF trade = "none" THEN HttpRes(400)
               ELSE IF M.sent = <<>> THEN HttpRes(401)
               ELSE HttpRes(0)
     /\ UNCHANGED <<config, currentConnectionId, nextWeb, loggedIn, presented>>

\* The broker answers a request of a suspended /api/place-trades: after
\* the search the order is placed, with the epic found or with the
\* instrument name; after the order the handler answers 200.
TradeRespond(i, o) ==
  LET c == inflight[i]
      meta == [transport |-> c.transport, header |-> c.header, orig |-> c.orig]
      M0 == [Machine EXCEPT !.inf = RemoveAt(inflight, i)]
      M == IF c.name = "ig_search_instruments"
           THEN tradePlaceOrder(M0, meta, c.conn)
           ELSE M0
  IN /\ c.transport = "placetrades"
     /\ Commit(M)
     /\ ev' = [Event("response", c.transport, c.header, c.name, c.args)
                 EXCEPT !.outcome = o,
                        !.result = clientResult(c.name, Answered(c, o))]
     /\ res' = IF M.sent = <<>> THEN HttpRes(200) ELSE HttpRes(0)
     /\ UNCHANGED <<config, currentConnectionId, nextWeb, calls, loggedIn,
                    presented>>

TradeNext ==
  \/ \E k \in Headers : ApiLogin(k)
  \/ \E trade \in Trades : ApiPlaceTrades(trade)
  \/ \E i \in DOMAIN inflight : \E o \in OutcomesFor(inflight[i].name) :
       inflight[i].transport # "placetrades" /\ BrokerRespond(i, o)
  \/ \E i \in DOMAIN inflight : \E o \in OutcomesFor(inflight[i].name) :
       TradeRespond(i, o)

TradeSpec == Init /\ [][TradeNext]_vars

\* ================================================================ claims
GateEnabled == REQUIRE_AUTHENTICATION /\ MCP_SERVER_API_KEY # ""

\* The tools that need a broker session.
SessionTools == {"ig_logout"} \cup ResourceTools

NoData(e) == e.text.data = DataAbsent \/ e.text.data = DataNull

Rejected(e) ==
  e.isError /\ e.text.message = MsgUnauthorized /\ e.text.data = DataNull

Last(q) == q[Len(q)]

\* ---- C1
\* The step of the gate: when gateOn, a call that runs a tool other than
\* mcp_authenticate under an identity outside authenticatedConnections
\* returns the Unauthorized envelope, the step sends nothing to the broker
\* and leaves the session store and the authenticated set as they were, and
\* every broker request of the step is sent under an authenticated identity.
GateStep(gateOn) ==
  (gateOn /\ ev'.step = "call") =>
    /\ \A i \in DOMAIN out' :
         (out'[i].name # "mcp_authenticate"
            /\ out'[i].conn \notin authenticatedConnections')
         => /\ Rejected(out'[i])
            /\ sent' = <<>>
            /\ UNCHANGED <<sessions, authenticatedConnections>>
    /\ \A j \in DOMAIN sent' : sent'[j].conn \in authenticatedConnections'

\* C1 as stated: whenever MCP_SERVER_API_KEY is configured, every tool call
\* other than mcp_authenticate on a connection that has not presented the
\* secret is rejected with the Unauthorized envelope, with no broker call
\* and no change of session state.
C1_AsStated == [][GateStep(MCP_SERVER_API_KEY # "")]_vars

\* C1 amended: the same, when MCP_SERVER_API_KEY is configured and
\* REQUIRE_AUTHENTICATION is not switched off.
C1_GateRejects == [][GateStep(GateEnabled)]_vars

\* A call is rejected at the gate while another connection holds a session.
C1_Witness ==
  /\ GateEnabled
  /\ ev.step = "call"
  /\ \E i \in DOMAIN out : out[i].name = "ig_get_accounts" /\ Rejected(out[i])
  /\ \E c \in ConnIds : isAuthenticated(sessions, c)

\* ---- C2
\* The step of the session check: a call of a session tool under an identity
\* without an authenticated session returns an error envelope with the
\* message msg(its identity), the step sends nothing to the broker, and
\* every broker request of a session tool is sent under an identity with an
\* authenticated session.
SessionStep(msg(_)) ==
  (ev'.step = "call") =>
    /\ \A i \in DOMAIN out' :
         (out'[i].name \in SessionTools
            /\ ~isAuthenticated(sessions, out'[i].conn))
         => /\ out'[i].isError
            /\ out'[i].text.message = msg(out'[i].conn)
            /\ sent' = <<>>
    /\ \A j \in DOMAIN sent' :
         sent'[j].op \in SessionTools => isAuthenticated(sessions, sent'[j].conn)

NotAuthenticatedMessage(c) == MsgNotAuthenticated

GateThenSessionMessage(c) ==
  IF GateEnabled /\ c \notin authenticatedConnections'
  THEN MsgUnauthorized ELSE MsgNotAuthenticated

\* C2 as stated: ig_logout and every resource tool, called on a connection
\* with no authenticated broker session, return the isError=true
\* 'Not authenticated' envelope and no broker request is made.
C2_AsStated == [][SessionStep(NotAuthenticatedMessage)]_vars

\* C2 amended: such a call returns an isError=true envelope and no broker
\* request is made; the envelope is the 'Not authenticated' one when the
\* connection passes the gate and the Unauthorized one when it does not.
C2_NoSessionNoBroker == [][SessionStep(GateThenSessionMessage)]_vars

\* A resource tool is answered 'Not authenticated' on a connection that has
\* passed the gate.
C2_Witness ==
  /\ GateEnabled
  /\ ev.step = "call"
  /\ \E i \in DOMAIN out :
       /\ out[i].name = "ig_call_api"
       /\ out[i].conn \in authenticatedConnections
       /\ out[i].isError
       /\ out[i].text.message = MsgNotAuthenticated

\* ---- C3
\* C3: when an ig_login returns success, isAuthenticated is true for its
\* connection identity, and when an ig_logout returns, it is false.
C3_LoginLogout ==
  /\ (ev.step = "response" /\ ev.name = "ig_login")
       => \A i \in DOMAIN out :
            ~out[i].isError => isAuthenticated(sessions, out[i].conn)
  /\ (ev.step = "call")
       => \A i \in DOMAIN out :
            out[i].name = "ig_logout" => ~isAuthenticated(sessions, out[i].conn)

\* An ig_logout has succeeded, so a login had succeeded before it.
C3_Witness ==
  /\ ev.step = "call"
  /\ \E i \in DOMAIN out :
       /\ out[i].name = "ig_logout"
       /\ ~out[i].isError
       /\ ~isAuthenticated(sessions, out[i].conn)

\* ---- C4
\* C4: in strict-credential mode an ig_login that carries a username, a
\* password or an apiKey returns an isError=true envelope in the step that
\* receives it, no broker request is sent and the session store is unchanged.
C4_StrictLogin ==
  [][ (REQUIRE_ENV_CREDENTIALS /\ ev'.step = "call" /\ ev'.name = "ig_login"
         /\ ev'.args # NoArgs)
      => /\ sent' = <<>>
         /\ UNCHANGED sessions
         /\ out' # <<>>
         /\ Last(out').name = "ig_login"
         /\ Last(out').isError ]_vars

\* Strict mode refuses tool credentials with the environment credentials
\* configured and a session stored.
C4_Witness ==
  /\ REQUIRE_ENV_CREDENTIALS
  /\ USERNAME # "" /\ PASSWORD # "" /\ API_KEY # ""
  /\ ev.step = "call" /\ ev.name = "ig_login" /\ ev.args # NoArgs
  /\ out # <<>>
  /\ Last(out).text.message = MsgStrict
  /\ isAuthenticated(sessions, Last(out).conn)

\* ---- C5
\* C5: with the gate on, a tools/call on POST /mcp that carries no valid
\* x-mcp-api-key header and is not itself an mcp_authenticate with the
\* secret, from a caller that has never presented the secret, is answered
\* with an authorization error and sends nothing to the broker.
C5_HttpGate ==
  [][ ( /\ GateEnabled
        /\ ev'.step = "call" /\ ev'.transport = "mcp"
        /\ ev'.header # MCP_SERVER_API_KEY
        /\ ~(ev'.name = "mcp_authenticate" /\ ev'.args.apiKey = MCP_SERVER_API_KEY)
        /\ Caller(ev'.transport, ev'.header) \notin presented )
      => /\ sent' = <<>>
         /\ out' # <<>>
         /\ Last(out').isError
         /\ Last(out').text.message \in {MsgUnauthorized, MsgGateBad} ]_vars

\* ---- C6
\* What the program holds for one connection identity.
StoredCredentials(ss, connectionId) ==
  IF HasStore(ss, connectionId) THEN ss[StoreIndex(ss, connectionId)].credentials
  ELSE <<>>

ConnView(c) ==
  [session |-> getSession(sessions, c),
   credentials |-> StoredCredentials(sessions, c),
   gate |-> c \in authenticatedConnections,
   client |-> clients[c]]

\* The identities the calls of the last step were executed under.
ExecutedUnder ==
  {out[i].conn : i \in DOMAIN out} \cup {sent[j].conn : j \in DOMAIN sent}

\* C6: a step leaves the stored session, the cached credentials, the gate
\* status and the broker client of every connection identity other than the
\* ones its calls were executed under as they were.
C6_Isolation ==
  [][ \A b \in ConnIds : b \notin ExecutedUnder' => ConnView(b)' = ConnView(b) ]_vars

\* A login has just stored a session for one identity while another identity
\* holds its own.
C6_Witness ==
  /\ ev.step = "response" /\ ev.name = "ig_login"
  /\ out # <<>> /\ ~Last(out).isError
  /\ \E b \in ConnIds : b # Last(out).conn /\ isAuthenticated(sessions, b)

\* ---- C7
\* C7 as stated: in every envelope executeToolCall returns, isError is true
\* if and only if the decoded data field is absent or null.
C7_AsStated == \A i \in DOMAIN out : out[i].isError <=> NoData(out[i])

\* C7 amended: isError=true implies that data is absent or null; data is
\* absent or null with isError=false only for a successful ig_logout and
\* for a resource call that succeeded with nothing to return.
C7_ErrorHasNoData ==
  \A i \in DOMAIN out :
    /\ out[i].isError => NoData(out[i])
    /\ (NoData(out[i]) /\ ~out[i].isError)
         => \/ out[i].name = "ig_logout"
            \/ (out[i].name \in ResourceTools /\ ev.step = "response")

\* A resource call has failed at the broker and its envelope has no data.
C7_Witness ==
  /\ ev.step = "response" /\ ev.name \in ResourceTools
  /\ out # <<>> /\ Last(out).isError /\ Last(out).text.data = DataAbsent

\* ---- C8
\* An mcp_authenticate with a key other than the secret returns the
\* 'Invalid API key' error envelope and does not add its connection to the
\* authenticated set: the connection is in the set afterwards only if it
\* was before, or if the same request also presented the secret for it.
WrongKeyStep(gateOn) ==
  \A i \in DOMAIN out' :
    (gateOn /\ ev'.step = "call" /\ out'[i].name = "mcp_authenticate"
       /\ out'[i].args.apiKey # MCP_SERVER_API_KEY)
    => /\ out'[i].isError
       /\ out'[i].text.message = MsgGateBad
       /\ (out'[i].conn \in authenticatedConnections'
             => \/ out'[i].conn \in authenticatedConnections
                \/ \E j \in DOMAIN out' :
                     /\ out'[j].name = "mcp_authenticate"
                     /\ out'[j].conn = out'[i].conn
                     /\ out'[j].args.apiKey = MCP_SERVER_API_KEY)

\* C8 as stated: whenever MCP_SERVER_API_KEY is configured.
C8_AsStated == [][WrongKeyStep(MCP_SERVER_API_KEY # "")]_vars

\* C8 amended: when MCP_SERVER_API_KEY is configured and
\* REQUIRE_AUTHENTICATION is not switched off.
C8_WrongKeyRejected == [][WrongKeyStep(GateEnabled)]_vars

\* An empty key has been refused on a connection that is not authenticated.
C8_Witness ==
  /\ GateEnabled /\ ev.step = "call" /\ ev.name = "mcp_authenticate"
  /\ ev.args.apiKey = ""
  /\ out # <<>> /\ Last(out).text.message = MsgGateBad
  /\ Last(out).conn \notin authenticatedConnections

\* ---- C9
\* C9: no step removes a connection from the authenticated set; a step adds
\* a connection only by an mcp_authenticate executed under it with the
\* configured secret; and no call executed under a connection already in
\* the set is answered with the Unauthorized envelope.
C9_GateSticks ==
  [][ /\ authenticatedConnections \subseteq authenticatedConnections'
      /\ \A c \in authenticatedConnections' \ authenticatedConnections :
           \E i \in DOMAIN out' :
             /\ out'[i].name = "mcp_authenticate" /\ out'[i].conn = c
             /\ MCP_SERVER_API_KEY # ""
             /\ out'[i].args.apiKey = MCP_SERVER_API_KEY
      /\ \A i \in DOMAIN out' :
           out'[i].conn \in authenticatedConnections
             => out'[i].text.message # MsgUnauthorized ]_vars

\* A wrong key has been refused on a connection that stays authenticated.
C9_Witness ==
  /\ ev.step = "call"
  /\ \E i \in DOMAIN out :
       /\ out[i].name = "mcp_authenticate" /\ out[i].isError
       /\ out[i].conn \in authenticatedConnections

\* ---- C10
\* C10: a session tool called by a caller that has logged in, with no
\* ig_logout since, is not answered 'Not authenticated'.
C10_SessionStays ==
  [][ \A i \in DOMAIN out' :
        ( /\ ev'.step = "call"
          /\ out'[i].name \in SessionTools
          /\ Caller(ev'.transport, ev'.header) \in loggedIn )
        => out'[i].text.message # MsgNotAuthenticated ]_vars

\* ---- C11
\* The broker has answered POST /session with a 2xx response that lacks the
\* CST or the X-SECURITY-TOKEN header.
LoginWithoutTokens(e) ==
  /\ e.step = "response" /\ e.name = "ig_login"
  /\ e.outcome.kind = "ok"
  /\ (e.outcome.cst = "" \/ e.outcome.xst = "")

\* C11: when the broker's 2xx answer to a login lacks either token header,
\* authenticate returns success=false with its authentication error,
\* ig_login returns isError=true, and the step leaves the session store and
\* every client, token headers included, as they were.
C11_NoTokensNoSession ==
  [][ LoginWithoutTokens(ev')
      => /\ ~ev'.result.success
         /\ ev'.result.error.errorCode = "AUTH_ERROR"
         /\ ev'.result.userMessage = MsgNoTokens
         /\ out' # <<>> /\ Last(out').isError
         /\ Last(out').text.message = MsgNoTokens
         /\ sessions' = sessions
         /\ clients' = clients ]_vars

\* A login whose answer had the CST header alone has been refused and the
\* connection has no session.
C11_Witness ==
  /\ LoginWithoutTokens(ev)
  /\ ev.outcome.cst # "" /\ ev.outcome.xst = ""
  /\ Last(out).isError
  /\ ~isAuthenticated(sessions, Last(out).conn)

\* ---- C12
\* The broker has answered the request of the step with an error status.
HttpFailure(e) == e.step = "response" /\ e.outcome.kind = "http"

\* The failure message a client method hands to handleError.
OwnMessage(name) == IF name = "ig_login" THEN MsgAuthFailed ELSE MsgCallFailed

\* The error field carries the code and the message of the broker's body.
PassedThrough(e) ==
  e.outcome.body = "full"
    => e.result.error = [errorCode |-> UpstreamCode,
                         errorMessage |-> UpstreamMessage]

\* C12 as stated: on a failure with status s the user message is the
\* re-login message iff s is 401 or 403, the not-found message iff s is
\* 404, the rate-limit message iff s is 429, the unavailable message for
\* every s in 500..599, and for every other status the broker's error code
\* and message are passed through in the error field.
C12_AsStated ==
  HttpFailure(ev) =>
    LET s == ev.outcome.status
        m == ev.result.userMessage
    IN /\ (m = MsgRelogin <=> s \in {401, 403})
       /\ (m = MsgNotFound <=> s = 404)
       /\ (m = MsgRateLimit <=> s = 429)
       /\ (s \in 500..599 => m = MsgUnavailable)
       /\ (s \notin {401, 403, 404, 429} \cup (500..599) => PassedThrough(ev))

\* C12 amended: the unavailable message is given iff s is 500, 502 or 503;
\* every status outside 401, 403, 404, 429, 500, 502, 503 keeps the failure
\* message of the method that made the request; and the broker's error
\* code and message are passed through in the error field for every
\* status.
C12_ErrorMapping ==
  HttpFailure(ev) =>
    LET s == ev.outcome.status
        m == ev.result.userMessage
    IN /\ ~ev.result.success
       /\ (m = MsgRelogin <=> s \in {401, 403})
       /\ (m = MsgNotFound <=> s = 404)
       /\ (m = MsgRateLimit <=> s = 429)
       /\ (m = MsgUnavailable <=> s \in {500, 502, 503})
       /\ (s \notin {401, 403, 404, 429, 500, 502, 503} => m = OwnMessage(ev.name))
       /\ PassedThrough(ev)

\* A resource request has failed with 504 and kept the method's message.
C12_Witness ==
  /\ HttpFailure(ev) /\ ev.outcome.status = 504
  /\ ev.name \in ResourceTools
  /\ ev.result.userMessage = MsgCallFailed
  /\ ev.result.error.errorCode = UpstreamCode

\* ---- C13
\* C13: when the broker answers the request of a resource call with error
\* status s and body b, the client result has success=false, debug.status=s
\* and debug.response=b, the envelope has isError=true and the same
\* debug.status, and for s=401 the message of both is the re-login message.
C13_DebugKept ==
  (HttpFailure(ev) /\ ev.name \in ResourceTools) =>
    LET s == ev.outcome.status
        b == ev.outcome.body
        e == Last(out)
    IN /\ ~ev.result.success
       /\ ev.result.debug.k = "object"
       /\ ev.result.debug.status = s
       /\ ev.result.debug.response = (IF b = "none" THEN "" ELSE b)
       /\ e.name = ev.name /\ e.isError
       /\ e.text.debug.k = "object"
       /\ e.text.debug.status = s
       /\ (s = 401 => /\ ev.result.userMessage = MsgRelogin
                      /\ e.text.message = MsgRelogin)

\* A resource call has been answered 401 and its envelope says so.
C13_Witness ==
  /\ HttpFailure(ev) /\ ev.name \in ResourceTools
  /\ ev.outcome.status = 401
  /\ Last(out).isError /\ Last(out).text.debug.status = 401
  /\ Last(out).text.message = MsgRelogin

\* ---- C14
\* The step is an ig_close_position call that got past the gate and the
\* session check, so that closePosition was called.
ClosePositionCalled ==
  /\ ev.step = "call" /\ ev.name = "ig_close_position"
  /\ out = <<>>

\* C14: closePosition(dealId, direction, size) issues exactly one broker
\* request, with the dealId and the size it was given and with direction
\* SELL when it was given BUY and BUY when it was given SELL; the direction
\* it sends is never the direction it was given.
C14_DirectionInverted ==
  ClosePositionCalled =>
    /\ Len(sent) = 1
    /\ sent[1].op = "ig_close_position"
    /\ sent[1].payload.dealId = ev.args.dealId
    /\ sent[1].payload.size = ev.args.size
    /\ (ev.args.direction = "BUY" => sent[1].payload.direction = "SELL")
    /\ (ev.args.direction = "SELL" => sent[1].payload.direction = "BUY")
    /\ sent[1].payload.direction # ev.args.direction

\* A position opened with BUY is being closed with a SELL of size 2.
C14_Witness ==
  /\ ClosePositionCalled
  /\ ev.args.direction = "BUY" /\ ev.args.size = 2 /\ ev.args.dealId = "deal-2"
  /\ sent # <<>> /\ sent[1].payload.direction = "SELL"

\* ---- C15
\* The broker has answered a getOpenPositions with an array of positions.
OpenPositionsAnswered ==
  /\ ev.step = "response" /\ ev.name = "ig_get_open_positions"
  /\ ev.outcome.kind = "ok" /\ ev.outcome.body = "full"

\* C15: getOpenPositions returns the elements of the result getPositions
\* makes of the same answer whose status is OPEN: each of them exactly
\* once, nothing else, in their order.
C15_OpenPositionsFiltered ==
  OpenPositionsAnswered =>
    LET got == ev.result.data.list
        all == clientCall("ig_get_positions", ev.outcome).data.list
    IN /\ ev.result.success
       /\ Last(out).text.data.list = got
       /\ \A i \in DOMAIN got :
            got[i].status = "OPEN" /\ \E j \in DOMAIN all : all[j] = got[i]
       /\ \A j \in DOMAIN all :
            all[j].status = "OPEN"
              => Cardinality({i \in DOMAIN got : got[i] = all[j]}) = 1
       /\ \A i1, i2 \in DOMAIN got : i1 < i2 => got[i1].id < got[i2].id

\* Of three positions, OPEN, CLOSED and OPEN, the first and the third have
\* been returned.
C15_Witness ==
  /\ OpenPositionsAnswered
  /\ Len(ev.outcome.positions) = 3
  /\ ev.outcome.positions[2].status = "CLOSED"
  /\ Len(ev.result.data.list) = 2
  /\ ev.result.data.list[1].id = 1 /\ ev.result.data.list[2].id = 3

\* ---- C17
\* C17: whatever the broker answers (2xx with any body, an error status, no
\* response at all), the client method the step resumes resolves with a
\* result and does not reject: the result says success=false with an error
\* code and a user message when the request failed, and the call does not
\* end in the catch block of executeToolCall.
C17_ClientNeverThrows ==
  ev.step = "response" =>
    /\ ~ev.result.thrown
    /\ ev.result.userMessage # ""
    /\ (ev.outcome.kind # "ok"
          => /\ ~ev.result.success
             /\ ev.result.error.errorCode # ""
             /\ ev.result.debug.k = "object")
    /\ (ev.result.success => ev.result.error = NoError)
    /\ Last(out).text.message # MsgUnexpected
    /\ Last(out).isError = ~ev.result.success

\* getAccounts has read the accounts of a null body, caught the TypeError
\* and returned a failure.
C17_Witness ==
  /\ ev.step = "response" /\ ev.name = "ig_get_accounts"
  /\ ev.outcome.kind = "ok" /\ ev.outcome.body = "null"
  /\ ~ev.result.success /\ ev.result.error.errorCode = "UNKNOWN_ERROR"
  /\ Last(out).isError

\* ---- C18
\* The methods handleMCPRequest knows.
RpcMethods == {"tools/list", "tools/call", "initialize"}

\* The three malformed requests of the claim, each with its code: a text
\* that is not JSON, a JSON value without jsonrpc "2.0", a jsonrpc "2.0"
\* request for a method that does not exist.
MalformedCode(body) ==
  IF body.json = "invalid" THEN -32700
  ELSE IF body.jsonrpc # "2.0" THEN -32600
  ELSE IF body.method \notin RpcMethods THEN -32601
  ELSE 0

\* C18: a POST /mcp whose body is not JSON is answered with the JSON-RPC
\* error -32700, one whose JSON has no jsonrpc "2.0" with -32600, one for an
\* unknown method with -32601; the answer is an error object, no request
\* goes to the broker, and no tool handler is run for the body (the
\* mcp_authenticate the handler runs for a request's x-mcp-api-key header
\* is not counted).
C18_RpcErrors ==
  [][ev'.step = "rpc" /\ MalformedCode(ev'.body) # 0 =>
       /\ res' = RpcError(MalformedCode(ev'.body))
       /\ sent' = <<>> /\ inflight' = inflight
       /\ sessions' = sessions
       /\ \A i \in DOMAIN out' :
            /\ out'[i].name = "mcp_authenticate"
            /\ out'[i].args.apiKey = ev'.header /\ ev'.header # ""]_vars

\* ---- C19
\* The broker has answered an ig_login that had no arguments with both
\* token headers and a JSON object as body.
EnvLoginAnswered ==
  /\ ev.step = "response" /\ ev.name = "ig_login" /\ ev.args = NoArgs
  /\ ev.outcome.kind = "ok"
  /\ ev.outcome.cst # "" /\ ev.outcome.xst # ""
  /\ ev.outcome.body # "null"

OrderAccepted ==
  /\ ev.step = "response" /\ ev.name = "ig_place_order"
  /\ ev.args.epic # "" /\ ev.args.direction # "" /\ ev.args.size # 0
  /\ ev.outcome.kind = "ok"

\* C20: when the broker accepts the order of an ig_place_order that has
\* epic, direction and size, the call returns one envelope with
\* isError=false whose data is the body of the broker's answer, deal
\* reference included.
C20_OrderData ==
  OrderAccepted =>
    /\ Len(out) = 1
    /\ ~out[1].isError
    /\ out[1].text.data =
         (IF ev.outcome.body = "null" THEN DataNull ELSE DataObj(ev.outcome.body))

\* On a connection with a session, a BUY has been accepted with the second
\* deal reference.
C20_Witness ==
  /\ OrderAccepted
  /\ ev.args.direction = "BUY"
  /\ ev.outcome.body = "dealReference-2"
  /\ isAuthenticated(sessions, out[1].conn)
  /\ out[1].text.data = DataObj("dealReference-2")

\* ---- C21
\* Tool-supplied value when one is supplied, otherwise the environment's.
Resolved(supplied, configured) == IF supplied # "" THEN supplied ELSE configured

\* C21: with strict mode off, the broker request of every ig_login carries
\* the resolved credentials: identifier and password in its body and the
\* resolved apiKey as its X-IG-API-KEY header, whatever logins the
\* connection has made before.
C21_ResolvedCredentials ==
  (~REQUIRE_ENV_CREDENTIALS /\ ev.step = "call" /\ ev.name = "ig_login") =>
    \A j \in DOMAIN sent :
      sent[j].op = "ig_login" =>
        /\ sent[j].identifier = Resolved(ev.args.username, USERNAME)
        /\ sent[j].password = Resolved(ev.args.password, PASSWORD)
        /\ sent[j].apiKey = Resolved(ev.args.apiKey, API_KEY)

\* ---- C22
\* A broker request of the step made for a session tool.
SessionRequests == { j \in DOMAIN sent : sent[j].op \in ResourceTools }

\* The request carries the tokens of the session stored for its connection.
CarriesSession(r) ==
  LET session == getSession(sessions, r.conn)
  IN /\ session # <<>>
     /\ r.CST = session[1].cst
     /\ r.XST = session[1].xSecurityToken

\* C22 as stated: every broker request made for a session tool carries the
\* CST and X-SECURITY-TOKEN of the session stored for the calling connection
\* when the call was dispatched.
C22_AsStated ==
  ev.step = "call" => \A j \in SessionRequests : CarriesSession(sent[j])

\* C22 amended: the same, except that an ig_call_api whose additionalHeaders
\* has a CST entry carries that entry as its CST header, with the session's
\* X-SECURITY-TOKEN.
C22_SessionTokens ==
  ev.step = "call" =>
    \A j \in SessionRequests :
      IF ev.name = "ig_call_api" /\ ev.args.additionalHeaders # ""
      THEN /\ sent[j].CST = ev.args.additionalHeaders
           /\ getSession(sessions, sent[j].conn) # <<>>
           /\ sent[j].XST = getSession(sessions, sent[j].conn)[1].xSecurityToken
      ELSE CarriesSession(sent[j])

\* After a login of the first account and a re-login with a key of the
\* caller's own that swapped the client and opened the session of the
\* second account, a session tool is dispatched.
C22_Witness ==
  /\ ev.step = "call" /\ ev.name = "ig_get_accounts"
  /\ calls = 3
  /\ SessionRequests # {}
  /\ sent[1].CST = "cst-B" /\ sent[1].apiKey = ToolKey
  /\ CarriesSession(sent[1])

\* ---- C23
\* An ig_place_order has sent its payload to the broker.
OrderSent ==
  /\ ev.step = "call" /\ ev.name = "ig_place_order"
  /\ Len(sent) = 1 /\ sent[1].op = "ig_place_order"

\* The optional keys that have no default.
PlainOptionalKeys == {"expiry", "level"}

\* C23: the payload of ig_place_order has orderType MARKET and timeInForce
\* EXECUTE_AND_ELIMINATE when the caller gives none and the caller's value
\* otherwise, forceOpen true unless the caller passed false, guaranteedStop
\* false unless the caller passed true, and a key for an optional field
\* exactly when the caller gave the field.
C23_OrderPayload ==
  OrderSent =>
    LET payload == sent[1].payload
        args == ev.args
    IN /\ payload.orderType = (IF args.orderType = "" THEN "MARKET" ELSE args.orderType)
       /\ payload.timeInForce = (IF args.timeInForce = "" THEN "EXECUTE_AND_ELIMINATE"
                                 ELSE args.timeInForce)
       /\ payload.forceOpen = (IF args.forceOpen = "false" THEN "false" ELSE "true")
       /\ payload.guaranteedStop = (IF args.guaranteedStop = "true" THEN "true" ELSE "false")
       /\ payload.epic = args.epic /\ payload.direction = args.direction
       /\ payload.size = args.size
       /\ \A key \in PlainOptionalKeys :
            IF IsUndefined(key, args[key]) THEN key \notin DOMAIN payload
            ELSE key \in DOMAIN payload /\ payload[key] = args[key]

\* An order with epic, direction and size only has gone out with the four
\* defaults and no other key.
C23_Witness ==
  /\ OrderSent
  /\ ev.args.orderType = "" /\ ev.args.forceOpen = "" /\ ev.args.expiry = ""
  /\ DOMAIN sent[1].payload =
       {"epic", "direction", "size", "orderType", "timeInForce",
        "guaranteedStop", "forceOpen"}
  /\ sent[1].payload.orderType = "MARKET"

\* ---- C24
\* C24: a tools/call of the stdio transport is executed under the startup
\* connection identity: its envelope and its broker request name that
\* identity, also while HTTP requests are suspended on the broker.
C24_StdioIdentity ==
  (ev.step = "call" /\ ev.transport = "stdio") =>
    /\ \A i \in DOMAIN out : out[i].conn = StartupConnectionId
    /\ \A j \in DOMAIN sent : sent[j].conn = StartupConnectionId

\* ---- C25
\* The session and the cached credentials the Session Store holds for c.
StoredPair(ss, c) == <<getSession(ss, c), StoredCredentials(ss, c)>>

\* The credentials an ig_login with these arguments resolves.
ResolvedCredentials(args) ==
  [username |-> Resolved(args.username, USERNAME),
   password |-> Resolved(args.password, PASSWORD),
   apiKey |-> Resolved(args.apiKey, API_KEY)]

\* An ig_login has resumed with a session.
LoginSucceeded(e) ==
  e.step = "response" /\ e.name = "ig_login" /\ e.result.success

\* C25: the step that processes the successful answer to an ig_login stores
\* the session of that answer together with the credentials of that login,
\* and no other step changes one of the two without the other (a logout
\* clears both): after overlapping logins the session and the credentials
\* are those of the login whose answer was processed last.
C25_LastLoginWins ==
  [][\A c \in ConnIds :
       IF LoginSucceeded(ev') /\ c = Last(out').conn
       THEN StoredPair(sessions', c) =
              <<ev'.result.session, <<ResolvedCredentials(ev'.args)>> >>
       ELSE \/ StoredPair(sessions', c) = StoredPair(sessions, c)
            \/ /\ LoggedOut(out')
               /\ StoredPair(sessions', c) = << <<>>, <<>> >>]_vars

\* A login without arguments was overtaken by a login with the caller's own
\* credentials, which swapped the client and opened the session of the
\* second account; now the answer to the first login has been processed,
\* last, and its session and the environment's credentials are stored.
C25_Witness ==
  /\ LoginSucceeded(ev) /\ ev.args = NoArgs
  /\ inflight = <<>>
  /\ clients[StartupConnectionId] # <<>>
  /\ clients[StartupConnectionId][1].apiKey = ToolKey
  /\ clients[StartupConnectionId][1].CST = "cst-B"
  /\ ev.outcome.cst = "cst-A"
  /\ StoredPair(sessions, StartupConnectionId) =
       <<ev.result.session, <<ResolvedCredentials(NoArgs)>> >>

\* ---- C26
\* C26: between the steps of the handlers, which is where a tool call
\* starts and where it resumes after its awaited broker request, the
\* Session Store holds for every connection identity a session and cached
\* credentials, or neither.
C26_BothOrNeither ==
  \A c \in ConnIds :
    (getSession(sessions, c) = <<>>) <=> (StoredCredentials(sessions, c) = <<>>)

\* A login has stored both while another call of the same connection is
\* suspended and will resume in this state.
C26_Witness ==
  /\ LoginSucceeded(ev)
  /\ \E i \in DOMAIN inflight : inflight[i].conn = Last(out).conn
  /\ getSession(sessions, Last(out).conn) # <<>>
  /\ StoredCredentials(sessions, Last(out).conn) # <<>>

\* ---- C27
\* C27: once an ig_logout has succeeded on a connection, the connection has
\* no authenticated session again, and no session tool of it reaches the
\* broker, before an ig_login that was started after that logout succeeds;
\* a login that was suspended on the broker when the logout ran does not
\* bring the session back.
C27_LogoutSticks ==
  [][\A c \in ConnIds :
       (~isAuthenticated(sessions, c) /\ isAuthenticated(sessions', c))
         => /\ LoginSucceeded(ev')
            /\ Last(out').conn = c
            /\ ~ev'.overtaken]_vars

\* ---- C28
\* C28: when no HTTP request is in flight, the current connection identity
\* is the one the process started with: every /mcp and /api/login request
\* has put back the identity it replaced.
C28_IdentityRestored ==
  (\A i \in DOMAIN inflight : inflight[i].transport = "stdio")
    => currentConnectionId = StartupConnectionId

\* ---- C29
\* The session tokens the broker issues.
Tokens == {"cst-A", "xst-A", "cst-B", "xst-B"}

\* The IG passwords: the environment's and the callers'.
Passwords == {EnvPass, ToolPass}

Range(seq) == {seq[i] : i \in DOMAIN seq}

\* The strings in the text of an envelope.
EnvelopeStrings(e) ==
  {e.text.message, e.text.data.v, e.text.debug.response}
    \cup Range(e.text.debug.request) \cup Range(e.text.debug.headers)

\* C29: no envelope of a tool call contains the IG password or a session
\* token of the broker, whatever the broker answers to ig_login.
C29_NoSecrets ==
  \A i \in DOMAIN out : EnvelopeStrings(out[i]) \cap (Passwords \cup Tokens) = {}

\* ---- C30
\* C30: with the gate on, a POST /api/place-trades, which presents no
\* secret, leads to no placeOrder and no searchInstruments request: neither
\* the handler nor its resumption sends one, also after a caller of
\* /api/login has logged in.
C30_TradesGated ==
  (GateEnabled /\ ev.transport = "placetrades") => sent = <<>>

\* ---- C31
\* C31: every resource request of a connection carries the X-IG-API-KEY
\* that the login request carried which created the session the connection
\* has stored; a login that fails leaves that key in use.
ResourceRequests == { i \in DOMAIN sent : sent[i].op # "ig_login" }

C31_SessionKey ==
  \A i \in ResourceRequests : sent[i].apiKey = sessionKey[sent[i].conn]

\* ---- C32
\* A step of an ig_login that does not succeed: its call, whether it is
\* rejected at once or suspended on the broker, and the resumption on an
\* answer that is an error or that lacks a token.
LoginNotSucceeding(e) ==
  e.name = "ig_login" /\ e.step \in {"call", "response"} /\ ~LoginSucceeded(e)

\* C32: a step of an ig_login that does not succeed leaves the stored
\* session and the cached credentials of every connection as they were, and
\* the gate status of every connection that existed before the request.
C32_FailedLoginFrame ==
  [][ LoginNotSucceeding(ev')
      => \A c \in ConnIds :
           /\ StoredPair(sessions', c) = StoredPair(sessions, c)
           /\ c <= nextWeb
                => (c \in authenticatedConnections'
                      <=> c \in authenticatedConnections) ]_vars

\* A login has failed at the broker on a connection that had logged in
\* before, and the earlier session still passes the session check.
C32_Witness ==
  /\ LoginNotSucceeding(ev) /\ ev.step = "response"
  /\ out # <<>> /\ Last(out).isError
  /\ isAuthenticated(sessions, Last(out).conn)
  /\ ensureAuthenticated(sessions, Last(out).conn) = ""

\* ---- C33
\* The connections the Session Store holds a session for.
Stored == { sessions[i].id : i \in { j \in DOMAIN sessions : sessions[j].session # <<>> } }

\* C33: every session in the Session Store has authenticated = true and
\* both tokens; for every connection identity, one with no entry included,
\* isAuthenticated is true exactly when a session is stored for it and
\* ensureAuthenticated rejects exactly when none is.
C33_StoredMeansAuthenticated ==
  /\ \A i \in DOMAIN sessions :
       sessions[i].session # <<>>
         => /\ sessions[i].session[1].authenticated = TRUE
            /\ sessions[i].session[1].cst # ""
            /\ sessions[i].session[1].xSecurityToken # ""
  /\ \A c \in ConnIds :
       /\ isAuthenticated(sessions, c) <=> c \in Stored
       /\ ensureAuthenticated(sessions, c) # "" <=> c \notin Stored

\* One connection has a session stored, a second one has an entry that a
\* logout or a read left empty, and a third has no entry.
C33_Witness ==
  /\ Stored # {}
  /\ \E i \in DOMAIN sessions : sessions[i].session = <<>>
  /\ \E c \in ConnIds : ~HasStore(sessions, c)

\* ---- C34
\* The bodies of POST /mcp that are JSON texts.
ValidJson == {"null", "scalar", "object"}

\* C34: a POST /mcp whose body is a JSON text is not answered with the
\* Parse error -32700: it gets a result or an error with another code.
C34_ValidJsonParses ==
  ev.body.json \in ValidJson => res # RpcError(-32700)

\* ---- C35
\* The calls that are suspended, without the history flags of the entries.
Pending(q) ==
  [i \in DOMAIN q |-> [conn |-> q[i].conn, name |-> q[i].name, args |-> q[i].args]]

\* A call that is started returns its envelope in the same step or is
\* suspended on its broker request, and the calls that were suspended
\* before stay suspended.
StartsOne ==
  ev'.step = "call"
    => \/ /\ Len(out') = 1 /\ out'[1].name = ev'.name
          /\ Pending(inflight') = Pending(inflight)
       \/ /\ out' = <<>>
          /\ Len(inflight') = Len(inflight) + 1
          /\ SubSeq(Pending(inflight'), 1, Len(inflight)) = Pending(inflight)
          /\ Last(inflight').name = ev'.name

\* The answer of the broker resumes one suspended call, which returns one
\* envelope; the others stay suspended.
ResumesOne ==
  ev'.step = "response"
    => /\ Len(out') = 1 /\ out'[1].name = ev'.name
       /\ \E i \in DOMAIN inflight :
            /\ inflight[i].name = ev'.name
            /\ Pending(inflight') = Pending(RemoveAt(inflight, i))

\* C35: a started call returns exactly one envelope, at once or when the
\* broker has answered its request; no step removes a suspended call other
\* than the answer to its own request, and with every request answered every
\* suspended call returns.
C35_EveryCallReturns ==
  /\ [][StartsOne /\ ResumesOne]_vars
  /\ (inflight # <<>>) ~> (inflight = <<>>)

\* A login that was suspended while a logout of its connection succeeded
\* has returned its envelope.
C35_Witness ==
  /\ ev.step = "response" /\ ev.name = "ig_login" /\ ev.overtaken
  /\ Len(out) = 1 /\ out[1].name = "ig_login"

====
